---- MODULE Spec2Model ----
(***************************************************************************)
(* FatherTime: the persistent time-tracking store (database.py) and the    *)
(* timer runtime with its consolidated tick loop (timer_manager.py).       *)
(*                                                                         *)
(* Dates are day numbers (isoformat() is order preserving, so the string   *)
(* comparison of the archiver is the comparison of day numbers).  The wall *)
(* clock counts half seconds, so that a user operation can fall between    *)
(* two scheduler ticks; datetime.now() is that clock.                      *)
(***************************************************************************)
EXTENDS Integers, Sequences, FiniteSets, TLC

VARIABLES
    db,          \* the Database object: the four collections and _pending_saves
    fs,          \* the data directory: the four collection files and the archive
    tm,          \* the TimerManager object
    HAS_QTIMER,  \* database.py:19-23, whether PySide6 could be imported
    alive,       \* the process is running (main.py: app.exec() has not returned)
    clock,       \* datetime.now(), in half seconds
    today,       \* date.today(), a day number
    threads      \* the calls of Database.add_timer under way in threads: for each
                 \* thread its position in add_timer and the locals of its frame

vars == <<db, fs, tm, HAS_QTIMER, alive, clock, today, threads>>

----------------------------------------------------------------------------
(* Bounds of the model *)

MaxTimers == 2      \* catalog ids handed out: next_id stays <= MaxTimers + 1
MaxSessions == 2    \* sessions ever opened
MaxClock == 4       \* half seconds of wall-clock time (two scheduler ticks)
MaxMidnights == 1   \* midnights passed one at a time
MaxSleeps == 1      \* long periods (SleepDays days) with the process not running
MaxSeconds == 1     \* adjustTime is not used to push a counter beyond this
MaxCountdown == 2   \* the seconds given to setCountdownTime
MaxStoreTimers == 1 \* catalog ids handed out under SpecStore
ScenarioTicks == 125 \* scheduler ticks of the end-to-end scenario (SpecScenario)
MaxDays == 7        \* days passed one at a time under SpecSessions
MaxWorkTicks == 6   \* scheduler ticks under SpecWork
MaxNameLen == 3     \* length of the names made of NameAlphabet under SpecNames
MaxScheduleTicks == 305  \* scheduler ticks under SpecSchedule, past the wraparound
MaxThreads == 3     \* threads that call add_timer once each under SpecThreads

(* Program constants *)

ARCHIVE_DAYS == 14         \* database.py:374
NAME_MAX_LEN == 100        \* database.py:96
COUNTER_RESET == 300       \* timer_manager.py:842
DAY_CHECK_TICKS == 60      \* timer_manager.py:832
BREAKDOWN_TICKS == 5       \* timer_manager.py:837
BREAKDOWN_DAYS == 14       \* timer_manager.py:421
SECURE_MODE == 384         \* 0o600, database.py:437
DEFAULT_MODE == 420        \* 0o644, what open(..., "w") leaves under the usual umask

None == -1                 \* Python's None where a timestamp or a date is expected
Unset == -2                \* TimerManager has no attribute _current_date_str yet

SleepDays == ARCHIVE_DAYS
DateChoices == 0 .. 1      \* the dates the user can pick in the UI
TimerTypes == {"stopwatch", "countdown"}
KEYS == <<"data", "sessions", "daily_states", "daily_timers">>
KeySet == {KEYS[i] : i \in 1 .. 4}

----------------------------------------------------------------------------
(* Sequences and dictionaries *)

Range(s) == {s[i] : i \in DOMAIN s}

RECURSIVE SumSeq(_)
SumSeq(s) == IF s = <<>> THEN 0 ELSE Head(s) + SumSeq(Tail(s))

Max(a, b) == IF a >= b THEN a ELSE b

RECURSIVE SetMax(_)
SetMax(S) == LET x == CHOOSE x \in S : TRUE
             IN IF S = {x} THEN x ELSE Max(x, SetMax(S \ {x}))

RECURSIVE SetMin(_)
SetMin(S) == LET x == CHOOSE x \in S : TRUE
             IN IF S = {x} THEN x
                ELSE LET m == SetMin(S \ {x}) IN IF x <= m THEN x ELSE m

\* dict.get(k, default)
Get(f, k, default) == IF k \in DOMAIN f THEN f[k] ELSE default

\* d[k] = v
Put(f, k, v) == [x \in DOMAIN f \cup {k} |-> IF x = k THEN v ELSE f[x]]

\* the empty dict
EmptyDict == [x \in {} |-> 0]

\* the ids of a set, ascending (list.sort(key=lambda t: t.id))
RECURSIVE SortedSeq(_)
SortedSeq(S) == IF S = {} THEN <<>>
                ELSE LET m == SetMin(S) IN <<m>> \o SortedSeq(S \ {m})

\* str(timer_id) and int(timer_id_str)
IdStr(i) == ToString(i)
IdInt(s) == CHOOSE i \in 1 .. (MaxTimers + 2) : ToString(i) = s

----------------------------------------------------------------------------
(* Sanitizer.  A name is a sequence of characters. *)

Letters == {"a", "b", "c", "d", "e", "f", "g", "h", "i", "j", "k", "l", "m",
            "n", "o", "p", "q", "r", "s", "t", "u", "v", "w", "x", "y", "z",
            "A", "B", "C", "D", "E", "F", "G", "H", "I", "J", "K", "L", "M",
            "N", "O", "P", "Q", "R", "S", "T", "U", "V", "W", "X", "Y", "Z"}
Digits == {"0", "1", "2", "3", "4", "5", "6", "7", "8", "9"}

\* what str.strip() removes and what \s matches
Whitespace == {" ", "\t", "\n", "\r", "\f"}

\* the character class of allowed_pattern: [a-zA-Z0-9\s\-_().,!?:]
AllowedChars == Letters \cup Digits \cup Whitespace
                  \cup {"-", "_", "(", ")", ".", ",", "!", "?", ":"}

\* \w
WordChars == Letters \cup Digits \cup {"_"}

UpperSeq == <<"A", "B", "C", "D", "E", "F", "G", "H", "I", "J", "K", "L", "M",
              "N", "O", "P", "Q", "R", "S", "T", "U", "V", "W", "X", "Y", "Z">>
LowerSeq == <<"a", "b", "c", "d", "e", "f", "g", "h", "i", "j", "k", "l", "m",
              "n", "o", "p", "q", "r", "s", "t", "u", "v", "w", "x", "y", "z">>

\* re.IGNORECASE: compare characters in lower case
Lower(c) == IF \E i \in 1 .. 26 : UpperSeq[i] = c
            THEN LowerSeq[CHOOSE i \in 1 .. 26 : UpperSeq[i] = c]
            ELSE c

RECURSIVE LStrip(_)
LStrip(s) == IF s # <<>> /\ Head(s) \in Whitespace THEN LStrip(Tail(s)) ELSE s

RECURSIVE RStrip(_)
RStrip(s) == IF s # <<>> /\ s[Len(s)] \in Whitespace
             THEN RStrip(SubSeq(s, 1, Len(s) - 1)) ELSE s

\* a strip of the left end only
LeftOnly_Strip(s) == LStrip(s)

\* str.strip()
Strip(s) == RStrip(LStrip(s))

\* re.sub(r'\s+', ' ', name)
RECURSIVE CollapseWhitespace(_)
CollapseWhitespace(s) ==
    IF s = <<>> THEN <<>>
    ELSE IF Head(s) \in Whitespace
         THEN <<" ">> \o CollapseWhitespace(LStrip(s))
         ELSE <<Head(s)>> \o CollapseWhitespace(Tail(s))

\* the literal text lit occurs in s at position i, ignoring case
MatchesAt(s, i, lit) ==
    /\ i + Len(lit) - 1 <= Len(s)
    /\ \A k \in 1 .. Len(lit) : Lower(s[i + k - 1]) = Lower(lit[k])

\* re.search of a literal, ignoring case
SearchLiteral(s, lit) == \E i \in 1 .. Len(s) : MatchesAt(s, i, lit)

\* re.search(r'<\s*' + word): "<", any whitespace, then the word
SearchTag(s, word) ==
    \E i \in 1 .. Len(s) : \E j \in (i + 1) .. Len(s) :
        /\ s[i] = "<"
        /\ \A k \in (i + 1) .. (j - 1) : s[k] \in Whitespace
        /\ MatchesAt(s, j, word)

\* re.search(r'on\w+\s*='): "on", one or more word characters, whitespace, "="
SearchEventHandler(s) ==
    \E i \in 1 .. Len(s) : \E j \in (i + 3) .. Len(s) : \E e \in j .. Len(s) :
        /\ MatchesAt(s, i, <<"o", "n">>)
        /\ \A k \in (i + 2) .. (j - 1) : s[k] \in WordChars
        /\ \A k \in j .. (e - 1) : s[k] \in Whitespace
        /\ s[e] = "="

\* dangerous_patterns, database.py:115-128
Dangerous(s) ==
    \/ SearchLiteral(s, <<"<", "s", "c", "r", "i", "p", "t">>)
    \/ SearchLiteral(s, <<"j", "a", "v", "a", "s", "c", "r", "i", "p", "t", ":">>)
    \/ SearchEventHandler(s)
    \/ SearchTag(s, <<"i", "f", "r", "a", "m", "e">>)
    \/ SearchTag(s, <<"o", "b", "j", "e", "c", "t">>)
    \/ SearchTag(s, <<"e", "m", "b", "e", "d">>)

\* Database._sanitize_timer_name: [ok, name] or [ok = FALSE, error]
_sanitize_timer_name(name) ==
    IF name = <<>> THEN [ok |-> FALSE, error |-> "non-empty string"]
    ELSE LET stripped == Strip(name) IN
         IF stripped = <<>> THEN [ok |-> FALSE, error |-> "empty or only whitespace"]
         ELSE IF Len(stripped) > NAME_MAX_LEN THEN [ok |-> FALSE, error |-> "too long"]
         ELSE IF \E i \in 1 .. Len(stripped) : stripped[i] \notin AllowedChars
              THEN [ok |-> FALSE, error |-> "invalid characters"]
         ELSE LET collapsed == CollapseWhitespace(stripped) IN
              IF Dangerous(collapsed)
              THEN [ok |-> FALSE, error |-> "potentially dangerous content"]
              ELSE [ok |-> TRUE, name |-> collapsed]

\* Database._sanitize_project_name: the same checks with its own messages
_sanitize_project_name(name) == _sanitize_timer_name(name)

----------------------------------------------------------------------------
(* Files.  A JSON object is the set of its members <<key, value>>, a JSON  *)
(* list is a sequence.                                                     *)

Missing == [kind |-> "missing"]

DumpDict(d) == {<<k, d[k]>> : k \in DOMAIN d}

LoadDict(members) ==
    [k \in {m[1] : m \in members} |-> (CHOOSE m \in members : m[1] = k)[2]]

DumpList(items) == [i \in DOMAIN items |-> DumpDict(items[i])]

\* a loader that leaves out the last element of every JSON list
DropLastLoadList(texts) ==
    [i \in DOMAIN texts \ {Cardinality(DOMAIN texts)} |-> LoadDict(texts[i])]

LoadList(texts) == [i \in DOMAIN texts |-> LoadDict(texts[i])]

\* json.dump(data, f, indent=2, ensure_ascii=False)
JsonDump(key, doc) ==
    CASE key = "data" ->
            DumpDict([timers |-> DumpList(doc.timers), next_id |-> doc.next_id])
      [] key = "sessions" -> DumpList(doc)
      [] key = "daily_states" -> DumpDict([k \in DOMAIN doc |-> DumpDict(doc[k])])
      [] key = "daily_timers" ->
            DumpDict([daily_timers |->
                          DumpDict([d \in DOMAIN doc.daily_timers |->
                                       DumpList(doc.daily_timers[d])]),
                      timer_order |-> DumpDict(doc.timer_order)])

\* json.load(f)
JsonLoad(key, text) ==
    CASE key = "data" ->
            LET top == LoadDict(text)
            IN [timers |-> LoadList(top.timers), next_id |-> top.next_id]
      [] key = "sessions" -> LoadList(text)
      [] key = "daily_states" ->
            LET top == LoadDict(text)
            IN [k \in DOMAIN top |-> LoadDict(top[k])]
      [] key = "daily_timers" ->
            LET top == LoadDict(text)
                lists == LoadDict(top.daily_timers)
            IN [daily_timers |-> [d \in DOMAIN lists |-> LoadList(lists[d])],
                timer_order |-> LoadDict(top.timer_order)]

\* default_data, default_sessions, default_states, default_timers
DefaultDoc(key) ==
    CASE key = "data" -> [timers |-> <<>>, next_id |-> 1]
      [] key = "sessions" -> <<>>
      [] key = "daily_states" -> EmptyDict
      [] key = "daily_timers" -> [daily_timers |-> EmptyDict, timer_order |-> EmptyDict]

\* Database._save_data_to_file on a directory: write, then chmod(0o600)
WriteFile(files, key, doc) ==
    [files EXCEPT ![key] = [kind |-> "json", text |-> JsonDump(key, doc),
                            mode |-> SECURE_MODE]]

\* Database._save_data_to_file(self.<key>, <file of key>); S is [db, fs]
_save_data_to_file(S, key) == [S EXCEPT !.fs = WriteFile(S.fs, key, S.db[key])]

\* Database._mark_for_save
_mark_for_save(S, key) ==
    IF key \in DOMAIN S.db._pending_saves
    THEN [S EXCEPT !.db._pending_saves[key] = TRUE]
    ELSE S

\* a save that writes the file at once although a batch timer exists
Eager_SaveCollection(S, key, immediate) == _save_data_to_file(S, key)

\* the body shared by save_data, save_sessions, save_daily_states, save_daily_timers
SaveCollection(S, key, immediate) ==
    IF immediate \/ ~HAS_QTIMER THEN _save_data_to_file(S, key)
    ELSE _mark_for_save(S, key)

save_data(S) == SaveCollection(S, "data", FALSE)
save_sessions(S) == SaveCollection(S, "sessions", FALSE)
save_daily_states(S) == SaveCollection(S, "daily_states", FALSE)
save_daily_timers(S) == SaveCollection(S, "daily_timers", FALSE)

\* a loader that takes a file that is not JSON for a missing one and replaces it
\* by the default structure
Default_LoadCollection(files, key) ==
    IF files[key].kind \in {"missing", "corrupt"}
    THEN [ok |-> TRUE, error |-> "none", doc |-> DefaultDoc(key),
          fs |-> WriteFile(files, key, DefaultDoc(key))]
    ELSE IF files[key].kind = "malformed"
         THEN [ok |-> FALSE, error |-> "ValidationError", doc |-> DefaultDoc(key),
               fs |-> files]
         ELSE [ok |-> TRUE, error |-> "none",
               doc |-> JsonLoad(key, files[key].text), fs |-> files]

\* _load_data, _load_sessions, _load_daily_states, _load_daily_timers (the four
\* have the same body, each on its own file and default): a missing
\* file is created with the default structure; a file that is not JSON
\* ("corrupt") raises DatabaseError, a JSON file that fails _validate_*_structure
\* ("malformed") raises ValidationError
LoadCollection(files, key) ==
    IF files[key].kind = "missing"
    THEN [ok |-> TRUE, error |-> "none", doc |-> DefaultDoc(key),
          fs |-> WriteFile(files, key, DefaultDoc(key))]
    ELSE IF files[key].kind = "corrupt"
         THEN [ok |-> FALSE, error |-> "DatabaseError", doc |-> DefaultDoc(key),
               fs |-> files]
         ELSE IF files[key].kind = "malformed"
              THEN [ok |-> FALSE, error |-> "ValidationError", doc |-> DefaultDoc(key),
                    fs |-> files]
              ELSE [ok |-> TRUE, error |-> "none",
                    doc |-> JsonLoad(key, files[key].text), fs |-> files]

\* Database._archive_sessions: the file is named by the batch's date range and is
\* written with open(..., "w"), no chmod
_archive_sessions(files, old_sessions) ==
    LET dates == {old_sessions[i].date : i \in DOMAIN old_sessions}
        name == <<SetMin(dates), SetMax(dates)>>
    IN [files EXCEPT !.archive =
           Put(files.archive, name,
               [archived_sessions |-> old_sessions, archived_on |-> today,
                mode |-> DEFAULT_MODE])]

IsOld(session) == session.date < today - ARCHIVE_DAYS

\* Database._check_and_archive_old_data, called from __init__ before
\* self._batch_save_timer exists: its save_sessions() raises AttributeError
_check_and_archive_old_data(sessions, files) ==
    LET old_sessions == SelectSeq(sessions, IsOld)
        recent_sessions == SelectSeq(sessions, LAMBDA x : ~IsOld(x))
    IN IF old_sessions # <<>>
       THEN [ok |-> FALSE, error |-> "AttributeError", sessions |-> recent_sessions,
             fs |-> _archive_sessions(files, old_sessions)]
       ELSE [ok |-> TRUE, error |-> "none", sessions |-> sessions, fs |-> files]

NoPending == [k \in KeySet |-> FALSE]

\* a Database object none of whose collections is loaded yet
Unloaded ==
    [data |-> DefaultDoc("data"), sessions |-> DefaultDoc("sessions"),
     daily_states |-> DefaultDoc("daily_states"),
     daily_timers |-> DefaultDoc("daily_timers"), _pending_saves |-> NoPending]

\* one load of Database.__init__; r is [ok, error, db, fs], ok = FALSE once a
\* step failed, error the exception it raised
LoadStep(r, key) ==
    IF ~r.ok THEN r
    ELSE LET l == LoadCollection(r.fs, key)
         IN [ok |-> l.ok, error |-> l.error,
             db |-> [r.db EXCEPT ![key] = l.doc], fs |-> l.fs]

\* the call of _check_and_archive_old_data in Database.__init__
ArchiveStep(r) ==
    IF ~r.ok THEN r
    ELSE LET a == _check_and_archive_old_data(r.db.sessions, r.fs)
         IN [ok |-> a.ok, error |-> a.error,
             db |-> [r.db EXCEPT !.sessions = a.sessions], fs |-> a.fs]

\* the try block of Database.__init__: the four loads and the archiving, ending
\* at the first step that raises
InitSteps(files) ==
    ArchiveStep(
        LoadStep(LoadStep(LoadStep(LoadStep([ok |-> TRUE, error |-> "none",
                                             db |-> Unloaded, fs |-> files],
                                            "data"), "sessions"), "daily_states"),
                 "daily_timers"))

\* "except Exception as e: raise DatabaseError(...) from e"
RaisedAs(r) ==
    [ok |-> r.ok, error |-> IF r.ok THEN "none" ELSE "DatabaseError",
     db |-> r.db, fs |-> r.fs]

\* Database.__init__ over a data directory: [ok, error, db, fs]; ok = FALSE is
\* the DatabaseError raised for the first step that fails
DatabaseInit(files) == RaisedAs(InitSteps(files))

EmptyDir == [data |-> Missing, sessions |-> Missing, daily_states |-> Missing,
             daily_timers |-> Missing, archive |-> EmptyDict]

----------------------------------------------------------------------------
(* Batch saving *)

\* Database._batch_save_all; fail names the collection whose file cannot be
\* opened for writing ("none": no I/O error).  The first error ends the pass.
RECURSIVE BatchSaveFrom(_, _, _)
BatchSaveFrom(S, i, fail) ==
    IF i > Len(KEYS) THEN S
    ELSE LET key == KEYS[i] IN
         IF ~S.db._pending_saves[key] THEN BatchSaveFrom(S, i + 1, fail)
         ELSE IF key = fail THEN S
              ELSE BatchSaveFrom(
                       [_save_data_to_file(S, key) EXCEPT !.db._pending_saves[key] = FALSE],
                       i + 1, fail)

\* a flush that clears the flags and writes nothing
Lost_batch_save_all(S, fail) ==
    IF \A k \in KeySet : ~S.db._pending_saves[k] THEN S
    ELSE [S EXCEPT !.db._pending_saves = NoPending]

_batch_save_all(S, fail) ==
    IF \A k \in KeySet : ~S.db._pending_saves[k] THEN S
    ELSE BatchSaveFrom(S, 1, fail)

\* Database.flush_all_saves
flush_all_saves(S, fail) ==
    IF \E k \in KeySet : S.db._pending_saves[k] THEN _batch_save_all(S, fail)
    ELSE S

----------------------------------------------------------------------------
(* Catalog, membership and daily state *)

\* the dict of add_timer / add_timer_to_date (created_at, a timestamp no code
\* reads, and the zero counters that the daily state overrides are left out)
TimerData(id, name, type, date_created) ==
    [id |-> id, name |-> name, type |-> type, date_created |-> date_created]

\* an id counter that is read and not advanced
Stuck_get_next_timer_id(S) == [S |-> S, timer_id |-> S.db.data.next_id]

\* Database._get_next_timer_id: [S, timer_id]
_get_next_timer_id(S) ==
    [S |-> [S EXCEPT !.db.data.next_id = @ + 1], timer_id |-> S.db.data.next_id]

\* Database.add_timer: [S, ret]; ret is the new id, or -1 for ValidationError
add_timer(S, raw_name, timer_type) ==
    LET clean == _sanitize_timer_name(raw_name) IN
    IF ~clean.ok \/ timer_type \notin TimerTypes THEN [S |-> S, ret |-> -1]
    ELSE LET timer_id == S.db.data.next_id
             S1 == [S EXCEPT !.db.data.timers =
                        Append(@, TimerData(timer_id, clean.name, timer_type, None)),
                      !.db.data.next_id = @ + 1]
         IN [S |-> save_data(S1), ret |-> timer_id]

\* Database.delete_timer
delete_timer(S, timer_id) ==
    IF \E t \in Range(S.db.data.timers) : t.id = timer_id
    THEN save_data([S EXCEPT !.db.data.timers = SelectSeq(@, LAMBDA t : t.id # timer_id)])
    ELSE S

\* Database.get_timer: the catalog entry, or <<>> for None
get_timer(S, timer_id) ==
    LET found == SelectSeq(S.db.data.timers, LAMBDA t : t.id = timer_id)
    IN IF found = <<>> THEN <<>> ELSE <<Head(found)>>

\* the default state record (last_started, a timestamp no code reads, is left
\* out; initial_countdown_seconds, absent until setCountdownTime writes it, is read
\* with the default 0)
DefaultState == [elapsed_seconds |-> 0, countdown_seconds |-> 0,
                 initial_countdown_seconds |-> 0, is_running |-> FALSE]

StateKey(date_str, timer_id) == <<date_str, IdStr(timer_id)>>

\* Database.get_daily_timer_state: the Store after the lazy creation; the state
\* returned is S.db.daily_states[StateKey(date_str, timer_id)] of the result
get_daily_timer_state(S, timer_id, date_str) ==
    IF StateKey(date_str, timer_id) \in DOMAIN S.db.daily_states THEN S
    ELSE save_daily_states(
             [S EXCEPT !.db.daily_states =
                  Put(@, StateKey(date_str, timer_id), DefaultState)])

\* dict.update(updates): updates is a record with some of the state's fields
UpdateRecord(r, updates) ==
    [f \in DOMAIN r |-> IF f \in DOMAIN updates THEN updates[f] ELSE r[f]]

\* Database.update_daily_timer_state
update_daily_timer_state(S, timer_id, date_str, updates) ==
    LET key == StateKey(date_str, timer_id)
        old == Get(S.db.daily_states, key, DefaultState)
    IN save_daily_states(
           [S EXCEPT !.db.daily_states = Put(@, key, UpdateRecord(old, updates))])

\* a lookup that answers every date with the list of date 0
AnyDate_get_timers_for_date(S, date_str) == Get(S.db.daily_timers.daily_timers, 0, <<>>)

\* Database.get_timers_for_date
get_timers_for_date(S, date_str) == Get(S.db.daily_timers.daily_timers, date_str, <<>>)

\* Database.add_timer_to_date: [S, ret]; ret is the new id, -1 for a
\* ValidationError of the inputs, -2 for the duplicate-name rejection
add_timer_to_date(S, date_str, raw_name, timer_type) ==
    LET clean == _sanitize_timer_name(raw_name) IN
    IF ~clean.ok \/ timer_type \notin TimerTypes THEN [S |-> S, ret |-> -1]
    ELSE LET n == _get_next_timer_id(S)
             timer_data == TimerData(n.timer_id, clean.name, timer_type, date_str)
             S1 == save_data([n.S EXCEPT !.db.data.timers = Append(@, timer_data)])
             members == get_timers_for_date(S1, date_str)
             existing_names == {members[i].name : i \in DOMAIN members}
         IN IF clean.name \in existing_names
            THEN [S |-> [S1 EXCEPT !.db.data.timers =
                             SelectSeq(@, LAMBDA t : t.id # n.timer_id),
                           !.db.data.next_id = @ - 1],
                  ret |-> -2]
            ELSE [S |-> save_daily_timers(
                            [S1 EXCEPT !.db.daily_timers.daily_timers =
                                 Put(@, date_str, Append(members, timer_data))]),
                  ret |-> n.timer_id]

\* Database.remove_timer_from_date
remove_timer_from_date(S, date_str, timer_id) ==
    IF get_timers_for_date(S, date_str) # <<>>
    THEN save_daily_timers(
             [S EXCEPT !.db.daily_timers.daily_timers[date_str] =
                  SelectSeq(@, LAMBDA t : t.id # timer_id)])
    ELSE S

\* Database.get_timer_order
get_timer_order(S, date_str) == Get(S.db.daily_timers.timer_order, date_str, <<>>)

\* Database.update_timer_order
update_timer_order(S, date_str, timer_ids) ==
    save_daily_timers([S EXCEPT !.db.daily_timers.timer_order = Put(@, date_str, timer_ids)])

----------------------------------------------------------------------------
(* Sessions and the aggregator *)

\* Database.start_session: [S, ret]; ret is the session id, -1 for ValidationError
start_session(S, timer_id, project_name) ==
    LET clean == _sanitize_project_name(project_name) IN
    IF timer_id <= 0 \/ ~clean.ok THEN [S |-> S, ret |-> -1]
    ELSE LET existing_ids == {S.db.sessions[i].id : i \in DOMAIN S.db.sessions}
             next_id == IF existing_ids # {} THEN SetMax(existing_ids) + 1 ELSE 1
             session == [id |-> next_id, timer_id |-> timer_id,
                         project_name |-> clean.name, date |-> today,
                         start_time |-> clock, end_time |-> None,
                         duration_seconds |-> 0, is_active |-> TRUE]
         IN [S |-> save_sessions([S EXCEPT !.db.sessions = Append(@, session)]),
             ret |-> next_id]

\* int((end - start).total_seconds()), the clock counting half seconds
DurationSeconds(start_time, end_time) == (end_time - start_time) \div 2

\* an end_session that closes the session again when it is already closed
Reclose_end_session(S, session_id) ==
    LET hits == {i \in DOMAIN S.db.sessions : S.db.sessions[i].id = session_id}
    IN IF hits = {} THEN [S |-> S, ret |-> 0]
       ELSE LET i == SetMin(hits)
                duration == DurationSeconds(S.db.sessions[i].start_time, clock)
            IN [S |-> save_sessions(
                          [S EXCEPT !.db.sessions[i] =
                               [@ EXCEPT !.end_time = clock, !.is_active = FALSE,
                                         !.duration_seconds = duration]]),
                ret |-> duration]

\* Database.end_session: [S, ret]; the first session with that id that is
\* active; ret is the duration, -1 for a ValidationError
end_session(S, session_id) ==
    LET hits == {i \in DOMAIN S.db.sessions :
                    S.db.sessions[i].id = session_id /\ S.db.sessions[i].is_active}
    IN IF session_id <= 0 THEN [S |-> S, ret |-> -1]
       ELSE IF hits = {} THEN [S |-> S, ret |-> 0]
       ELSE LET i == SetMin(hits)
                duration == DurationSeconds(S.db.sessions[i].start_time, clock)
            IN [S |-> save_sessions(
                          [S EXCEPT !.db.sessions[i] =
                               [@ EXCEPT !.end_time = clock, !.is_active = FALSE,
                                         !.duration_seconds = duration]]),
                ret |-> duration]

\* Database.get_daily_summary: project -> seconds
get_daily_summary(S, target_date) ==
    LET closed == SelectSeq(S.db.sessions,
                            LAMBDA x : x.date = target_date /\ ~x.is_active)
        projects == {closed[i].project_name : i \in DOMAIN closed}
    IN [p \in projects |->
           SumSeq([i \in DOMAIN closed |->
                      IF closed[i].project_name = p THEN closed[i].duration_seconds
                      ELSE 0])]

\* a weekly summary that looks a day too far back
EightDays_get_weekly_summary(S) ==
    LET days == {d \in today - 7 .. today : DOMAIN get_daily_summary(S, d) # {}}
    IN [d \in days |-> get_daily_summary(S, d)]

\* Database.get_weekly_summary: date -> summary, for range(7) days back from
\* today, the days with an empty summary left out
get_weekly_summary(S) ==
    LET days == {d \in today - 6 .. today : DOMAIN get_daily_summary(S, d) # {}}
    IN [d \in days |-> get_daily_summary(S, d)]

\* Database.reset_all_data (no stats.json is modelled)
reset_all_data(S) ==
    LET S1 == save_data([S EXCEPT !.db.data = DefaultDoc("data")])
        S2 == save_sessions([S1 EXCEPT !.db.sessions = DefaultDoc("sessions")])
        S3 == save_daily_states([S2 EXCEPT !.db.daily_states = DefaultDoc("daily_states")])
    IN save_daily_timers([S3 EXCEPT !.db.daily_timers = DefaultDoc("daily_timers")])

----------------------------------------------------------------------------
(* Timer runtime.  W is [db, fs, tm]: the Store operators above act on its *)
(* db and fs fields.                                                       *)

\* TimerItem.__init__ on the membership entry merged with the daily state
TimerItem(data, state) ==
    [id |-> data.id, name |-> data.name, type |-> data.type,
     elapsedSeconds |-> state.elapsed_seconds,
     countdownSeconds |-> state.countdown_seconds,
     initialCountdownSeconds |-> state.initial_countdown_seconds,
     isRunning |-> state.is_running]

\* TimerManager._get_current_date_string
_get_current_date_string(W) ==
    IF W.tm._current_date_str # Unset THEN W.tm._current_date_str ELSE today

\* TimerManager._get_timer_by_id: the index in _timers, 0 for None
_get_timer_by_id(W, timer_id) ==
    LET hits == {i \in DOMAIN W.tm._timers : W.tm._timers[i].id = timer_id}
    IN IF hits = {} THEN 0 ELSE SetMin(hits)

\* the get_daily_timer_state calls of a loop over timer ids
RECURSIVE EnsureStates(_, _, _)
EnsureStates(W, ids, date_str) ==
    IF ids = <<>> THEN W
    ELSE EnsureStates(get_daily_timer_state(W, Head(ids), date_str), Tail(ids), date_str)

\* Database.get_daily_summary of target_date plus, for today, the elapsed time of
\* every stopwatch of _timers with a tracked session
BreakdownSummary(W, target_date) ==
    LET closed == get_daily_summary(W, target_date)
        live == {i \in DOMAIN W.tm._timers :
                    /\ target_date = today
                    /\ W.tm._timers[i].id \in DOMAIN W.tm._active_sessions
                    /\ W.tm._timers[i].type = "stopwatch"}
        names == DOMAIN closed \cup {W.tm._timers[i].name : i \in live}
    IN [p \in names |->
           Get(closed, p, 0)
           + SumSeq([i \in DOMAIN W.tm._timers |->
                        IF i \in live /\ W.tm._timers[i].name = p
                        THEN W.tm._timers[i].elapsedSeconds ELSE 0])]

\* TimerManager._calculate_daily_breakdown: date -> (project -> seconds) for the
\* days of the window that have an entry; today always has one
_calculate_daily_breakdown(W) ==
    LET window == {d \in (today - BREAKDOWN_DAYS + 1) .. today :
                      d = today \/ DOMAIN BreakdownSummary(W, d) # {}}
    IN [d \in window |-> BreakdownSummary(W, d)]

\* TimerManager._update_breakdown_data
_update_breakdown_data(W) ==
    [W EXCEPT !.tm._daily_breakdown = _calculate_daily_breakdown(W)]

\* TimerManager._update_display_order_for_current_layout
_update_display_order_for_current_layout(W) ==
    LET current_date == _get_current_date_string(W)
        current_order == [i \in DOMAIN W.tm._timers |-> W.tm._timers[i].id]
    IN IF current_order # get_timer_order(W, current_date)
       THEN update_timer_order(W, current_date, current_order)
       ELSE W

\* TimerManager._load_timers
_load_timers(W) ==
    LET current_date == _get_current_date_string(W)
        timer_data == get_timers_for_date(W, current_date)
        ids == [i \in DOMAIN timer_data |-> timer_data[i].id]
        W1 == EnsureStates(W, ids, current_date)
        item(id) == LET i == SetMin({j \in DOMAIN timer_data : timer_data[j].id = id})
                    IN TimerItem(timer_data[i],
                                 W1.db.daily_states[StateKey(current_date, id)])
        display_order == get_timer_order(W1, current_date)
        ordered == SelectSeq(display_order, LAMBDA id : id \in Range(ids))
        first == [i \in DOMAIN ordered |->
                     IF \E j \in 1 .. (i - 1) : ordered[j] = ordered[i] THEN 0
                     ELSE ordered[i]]
        placed == SelectSeq(first, LAMBDA id : id # 0)
        layout == placed \o SortedSeq(Range(ids) \ Range(placed))
        W2 == [W1 EXCEPT !.tm._timers = [i \in DOMAIN layout |-> item(layout[i])],
                         !.tm._running_timer_ids =
                             {id \in Range(ids) : item(id).isRunning}]
    IN _update_display_order_for_current_layout(W2)

\* TimerManager.__init__ on a Database that was constructed
TimerManagerInit(database, files) ==
    LET W0 == [db |-> database, fs |-> files,
               tm |-> [_timers |-> <<>>, _active_sessions |-> EmptyDict,
                       _current_date |-> today, _current_date_str |-> Unset,
                       _daily_breakdown |-> EmptyDict, _timer_update_counter |-> 0,
                       _running_timer_ids |-> {}]]
    IN _update_breakdown_data(_load_timers(W0))

\* TimerManager.set_current_date
set_current_date(W, date_string) ==
    IF W.tm._current_date_str = date_string THEN W
    ELSE _load_timers([W EXCEPT !.tm._current_date_str = date_string])

\* TimerManager.addTimer: [W, ret]; ret is the new id or -1
addTimer(W, name, timer_type) ==
    IF timer_type \notin TimerTypes THEN [W |-> W, ret |-> -1]
    ELSE LET r == add_timer_to_date(W, _get_current_date_string(W), name, timer_type)
         IN IF r.ret < 0 THEN [W |-> r.S, ret |-> -1]
            ELSE [W |-> _load_timers(r.S), ret |-> r.ret]

\* TimerManager.startTimer
startTimer(W, timer_id) ==
    LET i == _get_timer_by_id(W, timer_id) IN
    IF timer_id <= 0 \/ i = 0 \/ W.tm._timers[i].isRunning THEN W
    ELSE LET W1 == [W EXCEPT !.tm._timers[i].isRunning = TRUE]
             current_date == _get_current_date_string(W)
             r == start_session(W1, timer_id, W.tm._timers[i].name)
             W2 == IF W.tm._timers[i].type = "stopwatch"
                   THEN [r.S EXCEPT !.tm._active_sessions = Put(@, timer_id, r.ret)]
                   ELSE W1
             W3 == update_daily_timer_state(W2, timer_id, current_date,
                       [is_running |-> TRUE])
         IN IF W.tm._timers[i].type = "stopwatch" /\ r.ret < 0 THEN W1
            ELSE [W3 EXCEPT !.tm._running_timer_ids = @ \cup {timer_id}]

\* del d[k]
DelKey(f, k) == [x \in DOMAIN f \ {k} |-> f[x]]

\* TimerManager.stopTimer
stopTimer(W, timer_id) ==
    LET i == _get_timer_by_id(W, timer_id) IN
    IF timer_id <= 0 \/ i = 0 \/ ~W.tm._timers[i].isRunning THEN W
    ELSE LET W1 == [W EXCEPT !.tm._timers[i].isRunning = FALSE]
             current_date == _get_current_date_string(W)
             W2 == IF /\ W.tm._timers[i].type = "stopwatch"
                      /\ timer_id \in DOMAIN W.tm._active_sessions
                   THEN _update_breakdown_data(
                            [end_session(W1, W.tm._active_sessions[timer_id]).S
                                EXCEPT !.tm._active_sessions = DelKey(@, timer_id)])
                   ELSE W1
             W3 == update_daily_timer_state(W2, timer_id, current_date,
                       [is_running |-> FALSE,
                        elapsed_seconds |-> W.tm._timers[i].elapsedSeconds,
                        countdown_seconds |-> W.tm._timers[i].countdownSeconds])
         IN [W3 EXCEPT !.tm._running_timer_ids = @ \ {timer_id}]

\* a resetTimer that sets a countdown to zero, as it does a stopwatch
Zero_resetTimer(W, timer_id) ==
    LET i == _get_timer_by_id(W, timer_id) IN
    IF i = 0 THEN W
    ELSE LET t1 == [W.tm._timers[i] EXCEPT !.isRunning = FALSE, !.elapsedSeconds = 0,
                                          !.countdownSeconds = 0]
             W1 == update_daily_timer_state(
                       [W EXCEPT !.tm._timers[i] = t1], timer_id,
                       _get_current_date_string(W),
                       [is_running |-> FALSE,
                        elapsed_seconds |-> t1.elapsedSeconds,
                        countdown_seconds |-> t1.countdownSeconds])
         IN [W1 EXCEPT !.tm._running_timer_ids = @ \ {timer_id}]

\* TimerManager.resetTimer
resetTimer(W, timer_id) ==
    LET i == _get_timer_by_id(W, timer_id) IN
    IF i = 0 THEN W
    ELSE LET t == W.tm._timers[i]
             t1 == IF t.type = "countdown"
                   THEN [t EXCEPT !.isRunning = FALSE,
                                  !.countdownSeconds = t.initialCountdownSeconds]
                   ELSE [t EXCEPT !.isRunning = FALSE, !.elapsedSeconds = 0]
             W1 == update_daily_timer_state(
                       [W EXCEPT !.tm._timers[i] = t1], timer_id,
                       _get_current_date_string(W),
                       [is_running |-> FALSE,
                        elapsed_seconds |-> t1.elapsedSeconds,
                        countdown_seconds |-> t1.countdownSeconds])
         IN [W1 EXCEPT !.tm._running_timer_ids = @ \ {timer_id}]

\* TimerManager.adjustTime
adjustTime(W, timer_id, seconds) ==
    LET i == _get_timer_by_id(W, timer_id) IN
    IF i = 0 THEN W
    ELSE LET t == W.tm._timers[i]
             t1 == IF t.type = "countdown"
                   THEN [t EXCEPT !.countdownSeconds = Max(0, @ + seconds)]
                   ELSE [t EXCEPT !.elapsedSeconds = Max(0, @ + seconds)]
         IN update_daily_timer_state(
                [W EXCEPT !.tm._timers[i] = t1], timer_id,
                _get_current_date_string(W),
                [elapsed_seconds |-> t1.elapsedSeconds,
                 countdown_seconds |-> t1.countdownSeconds])

\* TimerManager.setCountdownTime
setCountdownTime(W, timer_id, seconds) ==
    LET i == _get_timer_by_id(W, timer_id) IN
    IF i = 0 \/ W.tm._timers[i].type # "countdown" THEN W
    ELSE update_daily_timer_state(
             [W EXCEPT !.tm._timers[i].countdownSeconds = seconds,
                       !.tm._timers[i].initialCountdownSeconds = seconds],
             timer_id, _get_current_date_string(W),
             [countdown_seconds |-> seconds, initial_countdown_seconds |-> seconds])

\* TimerManager.deleteTimer
deleteTimer(W, timer_id) ==
    _load_timers(remove_timer_from_date(W, _get_current_date_string(W), timer_id))

\* "for timer in self._timers: if timer.isRunning: self.stopTimer(timer.id)",
\* from the i-th timer on
RECURSIVE StopRunning(_, _)
StopRunning(W, i) ==
    IF i > Len(W.tm._timers) THEN W
    ELSE IF W.tm._timers[i].isRunning
         THEN StopRunning(stopTimer(W, W.tm._timers[i].id), i + 1)
         ELSE StopRunning(W, i + 1)

\* the rest of resetAllData, after the running timers were stopped
ClearAll(W) ==
    _update_breakdown_data(
        _load_timers([reset_all_data(W) EXCEPT !.tm._active_sessions = EmptyDict]))

\* a resetAllData that keeps the map of tracked sessions
Tracking_resetAllData(W) ==
    _update_breakdown_data(_load_timers(reset_all_data(StopRunning(W, 1))))

\* TimerManager.resetAllData
resetAllData(W) == ClearAll(StopRunning(W, 1))

----------------------------------------------------------------------------
(* Scheduler *)

\* the loop body of _update_running_timers for one state record
AdvanceState(W, key, timer_state) ==
    LET timer_def == get_timer(W, IdInt(key[2])) IN
    IF ~timer_state.is_running \/ timer_def = <<>> THEN timer_state
    ELSE IF timer_def[1].type = "countdown"
         THEN IF timer_state.countdown_seconds > 0
              THEN [timer_state EXCEPT !.countdown_seconds = @ - 1]
              ELSE [timer_state EXCEPT !.is_running = FALSE, !.countdown_seconds = 0]
         ELSE [timer_state EXCEPT !.elapsed_seconds = @ + 1]

\* the second loop of _update_running_timers for one in-memory timer
ResyncTimer(timer, updated_state) ==
    IF ~timer.isRunning THEN timer
    ELSE IF timer.type = "countdown"
         THEN [timer EXCEPT !.countdownSeconds = updated_state.countdown_seconds,
                            !.isRunning = updated_state.is_running]
         ELSE [timer EXCEPT !.elapsedSeconds = updated_state.elapsed_seconds]

\* TimerManager._update_running_timers
_update_running_timers(W) ==
    LET all == W.db.daily_states
        updated == {k \in DOMAIN all :
                       all[k].is_running /\ get_timer(W, IdInt(k[2])) # <<>>}
        W1 == IF updated = {} THEN W
              ELSE save_daily_states(
                       [W EXCEPT !.db.daily_states =
                            [k \in DOMAIN all |-> AdvanceState(W, k, all[k])]])
        current_date == _get_current_date_string(W)
        running == SelectSeq(W.tm._timers, LAMBDA t : t.isRunning)
        W2 == EnsureStates(W1, [i \in DOMAIN running |-> running[i].id], current_date)
    IN [W2 EXCEPT !.tm._timers =
           [i \in DOMAIN @ |->
               ResyncTimer(@[i], Get(W2.db.daily_states,
                                     StateKey(current_date, @[i].id), DefaultState))]]

\* a rollover that also loads the timers of the viewed date again
Reloading_check_day_rollover(W) ==
    IF today # W.tm._current_date
    THEN _load_timers(_update_breakdown_data([W EXCEPT !.tm._current_date = today]))
    ELSE W

\* TimerManager._check_day_rollover
_check_day_rollover(W) ==
    IF today # W.tm._current_date
    THEN _update_breakdown_data([W EXCEPT !.tm._current_date = today])
    ELSE W

\* TimerManager._update_daily_breakdown
_update_daily_breakdown(W) ==
    IF DOMAIN W.tm._active_sessions # {} THEN _update_breakdown_data(W) ELSE W

\* TimerManager._consolidated_timer_update (_last_day_check and
\* _last_breakdown_update, which no code reads, are left out)
_consolidated_timer_update(W) ==
    LET counter == W.tm._timer_update_counter + 1
        W1 == IF W.tm._running_timer_ids # {} THEN _update_running_timers(W) ELSE W
        W2 == IF counter % DAY_CHECK_TICKS = 0 THEN _check_day_rollover(W1) ELSE W1
        W3 == IF counter % BREAKDOWN_TICKS = 0 /\ DOMAIN W2.tm._active_sessions # {}
              THEN _update_daily_breakdown(W2) ELSE W2
    IN [W3 EXCEPT !.tm._timer_update_counter =
           IF counter >= COUNTER_RESET THEN 0 ELSE counter]

----------------------------------------------------------------------------
(* The state machine *)

World == [db |-> db, fs |-> fs, tm |-> tm]

\* the Database and TimerManager objects become those of W
Becomes(W) == db' = W.db /\ fs' = W.fs /\ tm' = W.tm

Env == <<HAS_QTIMER, alive, clock, today, threads>>

\* names typed by the user: a name, the same name with blanks around it, and a
\* name with characters that are not allowed
Design == <<"D", "e", "s", "i", "g", "n">>
RawNames == {Design, <<" ">> \o Design \o <<" ", " ">>, <<"<", "b", ">">>}

TimerIds == 1 .. MaxTimers

\* a process without PySide6 has a Database and no TimerManager
NoTimerManager ==
    [_timers |-> <<>>, _active_sessions |-> EmptyDict, _current_date |-> None,
     _current_date_str |-> Unset, _daily_breakdown |-> EmptyDict,
     _timer_update_counter |-> 0, _running_timer_ids |-> {}]

\* TimerManager() on the outcome d of Database(): [ok, W]
Managers(d) ==
    IF d.ok /\ HAS_QTIMER THEN [ok |-> TRUE, W |-> TimerManagerInit(d.db, d.fs)]
    ELSE [ok |-> d.ok, W |-> [db |-> d.db, fs |-> d.fs, tm |-> NoTimerManager]]

\* main(): TimerManager() over the data directory; [ok, W]
Construct(files) == Managers(DatabaseInit(files))

InitAs(c) == db = c.W.db /\ fs = c.W.fs /\ tm = c.W.tm

\* the threads of tests/test_performance.py:294-305, none of them in add_timer yet
Threads == 1 .. MaxThreads
NoCalls == [t \in Threads |-> [pc |-> "idle", timer_id |-> 0, next_id |-> 0]]

Init ==
    /\ HAS_QTIMER \in BOOLEAN
    /\ alive = TRUE
    /\ clock = 0
    /\ today = 0
    /\ threads = NoCalls
    /\ InitAs(Construct(EmptyDir))

Running == alive /\ HAS_QTIMER

AddTimer(name, timer_type) ==
    /\ Running
    /\ db.data.next_id <= MaxTimers
    /\ Becomes(addTimer(World, name, timer_type).W)
    /\ UNCHANGED Env

StartTimer(timer_id) ==
    /\ Running
    /\ Len(startTimer(World, timer_id).db.sessions) <= MaxSessions
    /\ Becomes(startTimer(World, timer_id))
    /\ UNCHANGED Env

StopTimer(timer_id) ==
    /\ Running
    /\ Becomes(stopTimer(World, timer_id))
    /\ UNCHANGED Env

ResetTimer(timer_id) ==
    /\ Running
    /\ Becomes(resetTimer(World, timer_id))
    /\ UNCHANGED Env

AdjustTime(timer_id, seconds) ==
    /\ Running
    /\ \A i \in DOMAIN tm._timers :
           tm._timers[i].id = timer_id =>
               /\ tm._timers[i].elapsedSeconds + seconds <= MaxSeconds
               /\ tm._timers[i].countdownSeconds + seconds <= MaxSeconds
    /\ Becomes(adjustTime(World, timer_id, seconds))
    /\ UNCHANGED Env

SetCountdownTime(timer_id, seconds) ==
    /\ Running
    /\ Becomes(setCountdownTime(World, timer_id, seconds))
    /\ UNCHANGED Env

DeleteTimer(timer_id) ==
    /\ Running
    /\ Becomes(deleteTimer(World, timer_id))
    /\ UNCHANGED Env

SetViewedDate(date_string) ==
    /\ Running
    /\ Becomes(set_current_date(World, date_string))
    /\ UNCHANGED Env

ResetAllData ==
    /\ Running
    /\ Becomes(resetAllData(World))
    /\ UNCHANGED Env

\* the 1-second QTimer of TimerManager fires, at the next whole second
TickWithin(limit) ==
    /\ Running
    /\ 2 * (clock \div 2) + 2 <= limit
    /\ clock' = 2 * (clock \div 2) + 2
    /\ Becomes(_consolidated_timer_update(World))
    /\ UNCHANGED <<HAS_QTIMER, alive, today, threads>>

Tick == TickWithin(MaxClock)

\* half a second passes with no scheduler tick due
HalfSecondWithin(limit) ==
    /\ clock % 2 = 0
    /\ clock < limit
    /\ clock' = clock + 1
    /\ UNCHANGED <<db, fs, tm, HAS_QTIMER, alive, today, threads>>

HalfSecond == HalfSecondWithin(MaxClock)

Midnight ==
    /\ today % SleepDays < MaxMidnights
    /\ today' = today + 1
    /\ UNCHANGED <<db, fs, tm, HAS_QTIMER, alive, clock, threads>>

\* the application stays closed for SleepDays days
LongSleep ==
    /\ ~alive
    /\ today < MaxSleeps * SleepDays
    /\ today' = today + SleepDays
    /\ UNCHANGED <<db, fs, tm, HAS_QTIMER, alive, clock, threads>>

IOFailures == {"none"} \cup KeySet

\* the 10-second QTimer of Database fires
BatchSave(fail) ==
    /\ Running
    /\ Becomes(_batch_save_all(World, fail))
    /\ UNCHANGED Env

\* a caller invokes Database.flush_all_saves
FlushAll(fail) ==
    /\ alive
    /\ Becomes(flush_all_saves(World, fail))
    /\ UNCHANGED Env

\* a caller invokes Database.add_timer
DbAddTimer(name, timer_type) ==
    /\ alive
    /\ db.data.next_id <= MaxTimers
    /\ Becomes(add_timer(World, name, timer_type).S)
    /\ UNCHANGED Env

\* a caller invokes Database.add_timer_to_date
DbAddTimerToDate(date_str, name, timer_type) ==
    /\ alive
    /\ db.data.next_id <= MaxTimers
    /\ Becomes(add_timer_to_date(World, date_str, name, timer_type).S)
    /\ UNCHANGED Env

\* a caller invokes Database.remove_timer_from_date
DbRemoveTimerFromDate(date_str, timer_id) ==
    /\ alive
    /\ Becomes(remove_timer_from_date(World, date_str, timer_id))
    /\ UNCHANGED Env

\* a caller invokes Database.delete_timer
DbDeleteTimer(timer_id) ==
    /\ alive
    /\ Becomes(delete_timer(World, timer_id))
    /\ UNCHANGED Env

SessionIds == 0 .. MaxSessions + 1

\* a caller invokes Database.start_session
DbStartSession(timer_id, project_name) ==
    /\ alive
    /\ Len(db.sessions) < MaxSessions
    /\ Becomes(start_session(World, timer_id, project_name).S)
    /\ UNCHANGED Env

\* a caller invokes Database.end_session
DbEndSession(session_id) ==
    /\ alive
    /\ Becomes(end_session(World, session_id).S)
    /\ UNCHANGED Env

\* a second passes in a process with no scheduler
SecondPasses ==
    /\ alive /\ ~HAS_QTIMER
    /\ clock + 2 <= MaxClock
    /\ clock' = clock + 2
    /\ UNCHANGED <<db, fs, tm, HAS_QTIMER, alive, today, threads>>

\* a day passes
DayPasses ==
    /\ today < MaxDays
    /\ today' = today + 1
    /\ UNCHANGED <<db, fs, tm, HAS_QTIMER, alive, clock, threads>>

\* what can happen to a collection file while no process runs: its text is no
\* longer JSON, it is JSON of another structure, or the file is deleted
Damages == {"corrupt", "malformed", "missing"}

Damage(key, kind) ==
    /\ ~alive
    /\ fs[key].kind = "json"
    /\ fs' = [fs EXCEPT ![key] = IF kind = "missing" THEN Missing
                                 ELSE [@ EXCEPT !.kind = kind]]
    /\ UNCHANGED <<db, tm, HAS_QTIMER, alive, clock, today, threads>>

\* the objects of a process that has ended
Gone == [db |-> Unloaded, tm |-> NoTimerManager]

\* main() returns from app.exec(): the process ends with no call of
\* flush_all_saves, and its objects are gone
Exit ==
    /\ alive
    /\ alive' = FALSE
    /\ db' = Gone.db /\ tm' = Gone.tm
    /\ UNCHANGED <<fs, HAS_QTIMER, clock, today, threads>>

\* the outcome c of constructing the managers: they are built, or Database()
\* raised DatabaseError after what it wrote to the directory
Built(c) == c.ok /\ Becomes(c.W)
Failed(c) == ~c.ok /\ fs' = c.W.fs /\ UNCHANGED <<db, tm>>

\* the application is started over the data directory and its managers are built
StartOk ==
    /\ ~alive
    /\ alive' = TRUE
    /\ Built(Construct(fs))
    /\ UNCHANGED <<HAS_QTIMER, clock, today, threads>>

\* the same, and Database() raises DatabaseError: main() returns 1
StartFails ==
    /\ ~alive
    /\ Failed(Construct(fs))
    /\ UNCHANGED <<HAS_QTIMER, alive, clock, today, threads>>

\* a second Database (and TimerManager) is constructed over the same data
\* directory and replaces the first, as tests/test_database.py:104-115 does
Reopen ==
    /\ alive
    /\ Built(Construct(fs))
    /\ UNCHANGED Env

AdjustDeltas == {-1, 1}
CountdownChoices == 1 .. MaxCountdown

\* the timer runtime and its scheduler, on one calendar day
Next ==
    \/ \E name \in RawNames, timer_type \in TimerTypes : AddTimer(name, timer_type)
    \/ \E timer_id \in TimerIds : StartTimer(timer_id)
    \/ \E timer_id \in TimerIds : StopTimer(timer_id)
    \/ \E timer_id \in TimerIds : ResetTimer(timer_id)
    \/ \E timer_id \in TimerIds, seconds \in AdjustDeltas : AdjustTime(timer_id, seconds)
    \/ \E timer_id \in TimerIds, seconds \in CountdownChoices :
           SetCountdownTime(timer_id, seconds)
    \/ \E timer_id \in TimerIds : DeleteTimer(timer_id)
    \/ \E date_string \in DateChoices : SetViewedDate(date_string)
    \/ Tick

Spec == Init /\ [][Next]_vars

StoreRoom == db.data.next_id <= MaxStoreTimers

\* the seconds a caller can hand to setCountdownTime, a Slot(int, int)
SignedSeconds == -1 .. MaxCountdown

\* the timer runtime of the viewed date with its scheduler, setCountdownTime
\* taking any integer
NextSigned ==
    \/ \E name \in RawNames, timer_type \in TimerTypes : AddTimer(name, timer_type)
    \/ \E timer_id \in TimerIds : StartTimer(timer_id)
    \/ \E timer_id \in TimerIds : StopTimer(timer_id)
    \/ \E timer_id \in TimerIds : ResetTimer(timer_id)
    \/ \E timer_id \in TimerIds, seconds \in AdjustDeltas : AdjustTime(timer_id, seconds)
    \/ \E timer_id \in TimerIds, seconds \in SignedSeconds :
           SetCountdownTime(timer_id, seconds)
    \/ Tick

SpecSigned == Init /\ [][NextSigned]_vars

\* timers of the viewed date that are started and stopped while the scheduler
\* ticks
NextWork ==
    \/ \E name \in RawNames, timer_type \in TimerTypes : AddTimer(name, timer_type)
    \/ \E timer_id \in TimerIds : StartTimer(timer_id)
    \/ \E timer_id \in TimerIds : StopTimer(timer_id)
    \/ TickWithin(2 * MaxWorkTicks)

SpecWork == Init /\ [][NextWork]_vars

\* the timer runtime with timers running on the viewed date and on other dates,
\* and everything reset
NextReset ==
    \/ \E name \in RawNames, timer_type \in TimerTypes : AddTimer(name, timer_type)
    \/ \E timer_id \in TimerIds : StartTimer(timer_id)
    \/ \E date_string \in DateChoices : SetViewedDate(date_string)
    \/ Tick
    \/ ResetAllData

SpecReset == Init /\ [][NextReset]_vars

\* names a caller can pass: every text of up to MaxNameLen characters over a
\* small alphabet (letters, kinds of whitespace, a character that is not
\* allowed), the injection texts of tests/test_security_validation.py, alone and
\* inside a name, and that file's name with whitespace at its end
NameAlphabet == {"a", "B", " ", "\t", "\n", "<"}

ShortNames == UNION {[1 .. n -> NameAlphabet] : n \in 0 .. MaxNameLen}

Signatures ==
    {<<"<", "s", "c", "r", "i", "p", "t">>,
     <<"j", "a", "v", "a", "s", "c", "r", "i", "p", "t", ":">>,
     <<"o", "n", "c", "l", "i", "c", "k", "=">>,
     <<"<", "i", "f", "r", "a", "m", "e">>,
     <<"<", "o", "b", "j", "e", "c", "t">>,
     <<"<", "e", "m", "b", "e", "d">>}

NameInputs ==
    ShortNames \cup Signatures \cup {<<"a", " ">> \o sig \o <<"a">> : sig \in Signatures}
        \cup {<<"t", "i", "m", "e", "r", "\n", "\r", "\t">>}

\* names and project names of every kind handed to the Store
NextNames ==
    \/ \E name \in NameInputs, timer_type \in TimerTypes :
           StoreRoom /\ DbAddTimer(name, timer_type)
    \/ \E project_name \in NameInputs :
           db.sessions = <<>> /\ DbStartSession(1, project_name)

SpecNames == Init /\ [][NextNames]_vars

\* the scheduler over more than COUNTER_RESET ticks from its start, with and
\* without a stopwatch started before the first tick, the managers being built
\* again over the saved files before the first tick, midnight passing at any time
NextSchedule ==
    \/ db.data.next_id = 1 /\ AddTimer(Design, "stopwatch")
    \/ clock = 0 /\ StartTimer(1)
    \/ clock = 0 /\ BatchSave("none")
    \/ clock = 0 /\ Reopen
    \/ Midnight
    \/ TickWithin(2 * MaxScheduleTicks)

SpecSchedule == Init /\ [][NextSchedule]_vars

\* one countdown, configured and started before the first tick, the user
\* changing the viewed date at any time, and the scheduler's ticks, which keep
\* firing: a countdown of at most MaxCountdown seconds has MaxWorkTicks ticks
NextCountdown ==
    \/ db.data.next_id = 1 /\ AddTimer(Design, "countdown")
    \/ \E seconds \in CountdownChoices :
           clock = 0 /\ tm._running_timer_ids = {} /\ SetCountdownTime(1, seconds)
    \/ clock = 0 /\ StartTimer(1)
    \/ \E date_string \in DateChoices : SetViewedDate(date_string)
    \/ TickWithin(2 * MaxWorkTicks)

SpecCountdown ==
    Init /\ [][NextCountdown]_vars /\ WF_vars(TickWithin(2 * MaxWorkTicks))

\* a thread t goes through Database.add_timer(name, "stopwatch") (database.py:
\* 549-584), which takes no lock: the interpreter can switch threads between any
\* two of its statements, and inside 'self.data["next_id"] += 1', which reads the
\* counter and writes it back

\* the name is sanitized and timer_id = self.data["next_id"]
ThreadReadsNextId(t) ==
    /\ alive
    /\ threads[t].pc = "idle"
    /\ _sanitize_timer_name(Design).ok
    /\ threads' = [threads EXCEPT ![t].pc = "append", ![t].timer_id = db.data.next_id]
    /\ UNCHANGED <<db, fs, tm, HAS_QTIMER, alive, clock, today>>

\* self.data["timers"].append(timer)
ThreadAppends(t) ==
    /\ threads[t].pc = "append"
    /\ db' = [db EXCEPT !.data.timers =
                  Append(@, TimerData(threads[t].timer_id,
                                      _sanitize_timer_name(Design).name,
                                      "stopwatch", None))]
    /\ threads' = [threads EXCEPT ![t].pc = "load"]
    /\ UNCHANGED <<fs, tm, HAS_QTIMER, alive, clock, today>>

\* self.data["next_id"] += 1: the counter is read
ThreadLoadsCounter(t) ==
    /\ threads[t].pc = "load"
    /\ threads' = [threads EXCEPT ![t].pc = "store", ![t].next_id = db.data.next_id]
    /\ UNCHANGED <<db, fs, tm, HAS_QTIMER, alive, clock, today>>

\* self.data["next_id"] += 1: the sum is written back
ThreadStoresCounter(t) ==
    /\ threads[t].pc = "store"
    /\ db' = [db EXCEPT !.data.next_id = threads[t].next_id + 1]
    /\ threads' = [threads EXCEPT ![t].pc = "save"]
    /\ UNCHANGED <<fs, tm, HAS_QTIMER, alive, clock, today>>

\* self.save_data(), and add_timer returns timer_id
ThreadSaves(t) ==
    /\ threads[t].pc = "save"
    /\ Becomes(save_data(World))
    /\ threads' = [threads EXCEPT ![t].pc = "done"]
    /\ UNCHANGED <<HAS_QTIMER, alive, clock, today>>

\* the threads of the test, each calling add_timer once on the one Database
NextThreads ==
    \E t \in Threads :
        \/ ThreadReadsNextId(t)
        \/ ThreadAppends(t)
        \/ ThreadLoadsCounter(t)
        \/ ThreadStoresCounter(t)
        \/ ThreadSaves(t)

SpecThreads == Init /\ [][NextThreads]_vars

\* one stopwatch that is started and stopped, never adjusted or reset, while the
\* user changes the viewed date; time passes with the scheduler's ticks only, one
\* per second
NextViews ==
    \/ db.data.next_id = 1 /\ AddTimer(Design, "stopwatch")
    \/ StartTimer(1)
    \/ StopTimer(1)
    \/ \E date_string \in DateChoices : SetViewedDate(date_string)
    \/ TickWithin(2 * MaxWorkTicks)

SpecViews == Init /\ [][NextViews]_vars

\* the data directory between runs of the application: timers are added, the
\* process ends, files are damaged or deleted, the application is started
NextDisk ==
    \/ \E date_str \in DateChoices, name \in RawNames, timer_type \in TimerTypes :
           StoreRoom /\ DbAddTimerToDate(date_str, name, timer_type)
    \/ Exit
    \/ \E key \in KeySet, kind \in Damages : Damage(key, kind)
    \/ StartOk
    \/ StartFails

SpecDisk == Init /\ [][NextDisk]_vars

\* the Store with its files through flushes, process exits and starts, and the
\* days that pass, under the operations that fill the four collections
NextStore ==
    \/ \E name \in RawNames, timer_type \in TimerTypes :
           StoreRoom /\ AddTimer(name, timer_type)
    \/ \E timer_id \in TimerIds : StartTimer(timer_id)
    \/ \E timer_id \in TimerIds : StopTimer(timer_id)
    \/ Tick
    \/ Midnight
    \/ LongSleep
    \/ \E fail \in IOFailures : BatchSave(fail)
    \/ \E fail \in IOFailures : FlushAll(fail)
    \/ \E name \in RawNames, timer_type \in TimerTypes :
           StoreRoom /\ DbAddTimer(name, timer_type)
    \/ \E date_str \in DateChoices, name \in RawNames, timer_type \in TimerTypes :
           StoreRoom /\ ~HAS_QTIMER /\ DbAddTimerToDate(date_str, name, timer_type)
    \/ Exit
    \/ StartOk
    \/ StartFails
    \/ Reopen

SpecStore == Init /\ [][NextStore]_vars

\* the catalog and the per-date membership under the calls of the Database that
\* add and remove timers, with and without deferred saving
NextCatalog ==
    \/ \E name \in RawNames, timer_type \in TimerTypes : DbAddTimer(name, timer_type)
    \/ \E date_str \in DateChoices, name \in RawNames, timer_type \in TimerTypes :
           DbAddTimerToDate(date_str, name, timer_type)
    \/ \E date_str \in DateChoices, timer_id \in TimerIds :
           DbRemoveTimerFromDate(date_str, timer_id)
    \/ \E timer_id \in TimerIds : DbDeleteTimer(timer_id)

SpecCatalog == Init /\ [][NextCatalog]_vars

\* the sessions collection under the calls of the Database that open and close
\* sessions, over a week
NextSessions ==
    \/ \E timer_id \in 0 .. MaxTimers, project_name \in RawNames :
           DbStartSession(timer_id, project_name)
    \/ \E session_id \in SessionIds : DbEndSession(session_id)
    \/ Tick
    \/ HalfSecond
    \/ SecondPasses
    \/ DayPasses

SpecSessions == Init /\ [][NextSessions]_vars

\* the end-to-end scenario: on a viewed date, one stopwatch "Design" is added,
\* started once (on the second or half a second later), runs while the
\* scheduler ticks, and is stopped
ScenarioEnd == 2 * ScenarioTicks + 2

NextScenario ==
    \/ \E date_string \in DateChoices :
           db.data.next_id = 1 /\ SetViewedDate(date_string)
    \/ db.data.next_id = 1 /\ AddTimer(Design, "stopwatch")
    \/ db.sessions = <<>> /\ StartTimer(1)
    \/ db.sessions # <<>> /\ db.sessions[1].is_active /\ TickWithin(ScenarioEnd)
    \/ db.sessions = <<>> /\ HalfSecondWithin(ScenarioEnd)
    \/ StopTimer(1)

SpecScenario == Init /\ [][NextScenario]_vars

----------------------------------------------------------------------------
(* Claims *)

ActiveSessionsOf(timer_id) ==
    {i \in DOMAIN db.sessions :
        db.sessions[i].timer_id = timer_id /\ db.sessions[i].is_active}

\* C1: in every reachable state, for every timer id at most one session of the
\* live sessions collection has that timer_id and is_active = TRUE.
C1_AtMostOneActiveSession ==
    \A timer_id \in TimerIds : Cardinality(ActiveSessionsOf(timer_id)) <= 1

\* the Store's state records of the running timers of a type: timers of the
\* catalog that are on their date's list
RunningStates(type) ==
    {k \in DOMAIN db.daily_states :
        /\ db.daily_states[k].is_running
        /\ \E t \in Range(get_timers_for_date(World, k[1])) : t.id = IdInt(k[2])
        /\ get_timer(World, IdInt(k[2])) # <<>>
        /\ get_timer(World, IdInt(k[2]))[1].type = type}

\* C2: a scheduler tick adds one second to the Store's elapsed_seconds of every
\* running stopwatch (so n ticks in a row add n).
C2_TickAddsOneSecond ==
    [][Tick => \A k \in RunningStates("stopwatch") :
                   db'.daily_states[k].elapsed_seconds
                       = db.daily_states[k].elapsed_seconds + 1]_vars

\* C3: a scheduler tick takes a running countdown from c to max(0, c - 1), never
\* below 0, and a countdown that is at 0 after a tick is no longer running.
C3_CountdownTick ==
    [][Tick => \A k \in RunningStates("countdown") :
                   /\ db'.daily_states[k].countdown_seconds
                          = Max(0, db.daily_states[k].countdown_seconds - 1)
                   /\ db'.daily_states[k].countdown_seconds >= 0
                   /\ db'.daily_states[k].countdown_seconds = 0
                          => ~db'.daily_states[k].is_running]_vars

\* C4: on every scheduler tick every state record of the Store with is_running =
\* TRUE is advanced by one unit, whatever its date and whatever date is viewed,
\* and the in-memory timers other than the running ones are left as they were.
C4_TickAdvancesEveryRunningTimer ==
    [][Tick => /\ \A k \in DOMAIN db.daily_states :
                      db.daily_states[k].is_running
                          => db'.daily_states[k] = AdvanceState(World, k, db.daily_states[k])
               /\ \A i \in DOMAIN tm._timers :
                      ~tm._timers[i].isRunning => tm'._timers[i] = tm._timers[i]]_vars

\* the scenario has run: the one session of timer 1 is closed after ScenarioTicks
\* scheduler ticks
ScenarioDone ==
    /\ Len(db.sessions) = 1
    /\ ~db.sessions[1].is_active
    /\ db.sessions[1].end_time \div 2 - db.sessions[1].start_time \div 2 = ScenarioTicks

\* C5: after addTimer("Design", stopwatch) on the viewed date D, start,
\* ScenarioTicks ticks and stop: the one session is closed with a duration of
\* ScenarioTicks seconds (up to 1 s less), dailySummary(D) is {"Design": duration},
\* the state of (D, id) has elapsed_seconds = ScenarioTicks and is not running,
\* and the catalog has exactly one "Design" entry.
C5_EndToEnd ==
    ScenarioDone =>
        LET D == _get_current_date_string(World)
            duration == db.sessions[1].duration_seconds
        IN /\ duration \in {ScenarioTicks - 1, ScenarioTicks}
           /\ get_daily_summary(World, D) = [p \in {Design} |-> duration]
           /\ StateKey(D, 1) \in DOMAIN db.daily_states
           /\ db.daily_states[StateKey(D, 1)].elapsed_seconds = ScenarioTicks
           /\ ~db.daily_states[StateKey(D, 1)].is_running
           /\ Len(SelectSeq(db.data.timers, LAMBDA t : t.name = Design)) = 1

\* the sessions held by a directory's sessions file, and by its archive files
FileSessions(files) ==
    IF files.sessions.kind = "json" THEN JsonLoad("sessions", files.sessions.text)
    ELSE <<>>

ArchivedSessions(files) ==
    UNION {Range(files.archive[n].archived_sessions) : n \in DOMAIN files.archive}

\* C6: a start of the application over a sessions file that holds a session dated
\* before today - ARCHIVE_DAYS succeeds; afterwards the live sessions (in memory
\* and in the sessions file) are exactly the sessions of the file that are not
\* that old, and the archive holds the older ones, none of them in both places.
C6_ConstructionArchivesOldSessions ==
    [][((StartOk \/ StartFails) /\ \E x \in Range(FileSessions(fs)) : IsOld(x))
         => /\ alive'
            /\ db'.sessions = SelectSeq(FileSessions(fs), LAMBDA x : ~IsOld(x))
            /\ FileSessions(fs') = db'.sessions
            /\ \A x \in Range(FileSessions(fs)) :
                   IsOld(x) <=> x \in ArchivedSessions(fs')]_vars

\* C7: when the application exits, no collection has its dirty flag set: every
\* change made in memory has been flushed to its file.
C7_FlushBeforeExit ==
    [][(alive /\ ~alive') => \A key \in KeySet : ~db._pending_saves[key]]_vars

\* C8: a flush (the periodic one or flush_all_saves) that meets no I/O error
\* writes every collection whose dirty flag is set and no other, leaves all four
\* flags FALSE, and each file it wrote holds the collection as it is in memory.
C8_FlushWritesDirtyCollections ==
    [][(BatchSave("none") \/ FlushAll("none"))
         => \A key \in KeySet :
                /\ ~db'._pending_saves[key]
                /\ db'[key] = db[key]
                /\ IF db._pending_saves[key]
                   THEN /\ fs'[key].kind = "json"
                        /\ JsonLoad(key, fs'[key].text) = db'[key]
                   ELSE fs'[key] = fs[key]]_vars

\* a flush has written the catalog and the sessions of a running application
C8_Witness ==
    /\ Running
    /\ db.data.timers # <<>> /\ db.sessions # <<>>
    /\ \A key \in KeySet :
           /\ ~db._pending_saves[key]
           /\ fs[key].kind = "json"
           /\ JsonLoad(key, fs[key].text) = db[key]

\* C9: a timer that add_timer has put in the catalog is returned, with the same
\* name, by a new Database constructed over the same directory, with no flush
\* in between.
C9_AddTimerPersists ==
    [][Reopen => \A t \in Range(db.data.timers) :
                     t.date_created = None
                         => \E u \in Range(db'.data.timers) :
                                u.id = t.id /\ u.name = t.name]_vars

\* a collection is saved and a fresh Database is constructed over the directory
SavedThenLoaded(key) == DatabaseInit(_save_data_to_file(World, key).fs)

MembersOf(collections, date_str) == Get(collections.daily_timers.daily_timers, date_str, <<>>)

NamesOn(date_str) == {t.name : t \in Range(MembersOf(db, date_str))}

\* C11: add_timer_to_date(d1, ...) leaves the list of every other date as it
\* was; the list of a date is empty at first, grows by the new timer when an add
\* to that date succeeds, loses the timer a remove_timer_from_date names, and is
\* changed by no other call.
C11_MembershipIndependence ==
    [][/\ \A d1 \in DateChoices, name \in RawNames, timer_type \in TimerTypes :
              DbAddTimerToDate(d1, name, timer_type)
                  => /\ \A d2 \in DateChoices \ {d1} :
                            MembersOf(db', d2) = MembersOf(db, d2)
                     /\ LET r == add_timer_to_date(World, d1, name, timer_type)
                        IN IF r.ret < 0 THEN MembersOf(db', d1) = MembersOf(db, d1)
                           ELSE /\ Len(MembersOf(db', d1)) = Len(MembersOf(db, d1)) + 1
                                /\ SubSeq(MembersOf(db', d1), 1, Len(MembersOf(db, d1)))
                                       = MembersOf(db, d1)
                                /\ MembersOf(db', d1)[Len(MembersOf(db', d1))].id = r.ret
       /\ \A d1 \in DateChoices, timer_id \in TimerIds :
              DbRemoveTimerFromDate(d1, timer_id)
                  => \A d2 \in DateChoices :
                         MembersOf(db', d2) =
                             IF d2 = d1
                             THEN SelectSeq(MembersOf(db, d2), LAMBDA t : t.id # timer_id)
                             ELSE MembersOf(db, d2)
       /\ ((\E name \in RawNames, timer_type \in TimerTypes : DbAddTimer(name, timer_type))
              \/ (\E timer_id \in TimerIds : DbDeleteTimer(timer_id)))
              => \A d2 \in DateChoices : MembersOf(db', d2) = MembersOf(db, d2)]_vars

\* a timer was added to date 1 while date 0 already had one, and date 0 kept its list
C11_Witness ==
    /\ Len(MembersOf(db, 0)) = 1 /\ Len(MembersOf(db, 1)) = 1
    /\ MembersOf(db, 0)[1].id = 1 /\ MembersOf(db, 1)[1].id = 2

\* C12: add_timer_to_date(d, name) with valid inputs is rejected as a duplicate
\* exactly when the sanitized name is already on the list of d; what the lists
\* of other dates hold plays no part.
C12_DuplicatePerDate ==
    alive => \A date_str \in DateChoices, name \in RawNames, timer_type \in TimerTypes :
                 _sanitize_timer_name(name).ok
                     => (add_timer_to_date(World, date_str, name, timer_type).ret = -2
                             <=> _sanitize_timer_name(name).name \in NamesOn(date_str))

\* "Design" is on date 0 and not on date 1: it is rejected on one and accepted on
\* the other
C12_Witness ==
    /\ alive
    /\ Design \in NamesOn(0) /\ Design \notin NamesOn(1)
    /\ db.data.next_id = 2
    /\ add_timer_to_date(World, 0, Design, "stopwatch").ret = -2
    /\ add_timer_to_date(World, 1, Design, "stopwatch").ret = 2

\* C13: a call of add_timer_to_date that is rejected for a duplicate name leaves
\* the catalog (its timers and next_id, in memory and in the catalog file) and the
\* lists of the dates as they were before the call, and an add that succeeds next
\* is given the id the rejected call had taken.
C13_RejectionRollsBack ==
    [][\A date_str \in DateChoices, name \in RawNames, timer_type \in TimerTypes :
           (DbAddTimerToDate(date_str, name, timer_type)
               /\ add_timer_to_date(World, date_str, name, timer_type).ret = -2)
               => /\ db'.data = db.data
                  /\ db'.daily_timers = db.daily_timers
                  /\ fs'.data = fs.data
                  /\ \A d2 \in DateChoices :
                         LET r2 == add_timer_to_date(
                                       add_timer_to_date(World, date_str, name, timer_type).S,
                                       d2, name, timer_type)
                         IN r2.ret >= 0 => r2.ret = db.data.next_id]_vars

CatalogIds(collections) == {t.id : t \in Range(collections.data.timers)}

\* C14: under add_timer, add_timer_to_date, remove_timer_from_date and
\* delete_timer no two catalog entries have the same id, every catalog id is
\* below next_id, next_id never goes down, and an entry that comes into the
\* catalog has an id that is at least the next_id of before, so above every id
\* handed out earlier.
C14_IdsUniqueAndMonotone ==
    [][/\ Cardinality(CatalogIds(db')) = Len(db'.data.timers)
       /\ \A id \in CatalogIds(db') : id < db'.data.next_id
       /\ db'.data.next_id >= db.data.next_id
       /\ \A id \in CatalogIds(db') \ CatalogIds(db) :
              id >= db.data.next_id /\ db'.data.next_id = id + 1]_vars

\* two ids were handed out and the first entry was deleted
C14_Witness == CatalogIds(db) = {2} /\ db.data.next_id = 3

\* no session with this id is open: the id is unknown or its session is closed
NotOpen(session_id) ==
    \A i \in DOMAIN db.sessions :
        db.sessions[i].id = session_id => ~db.sessions[i].is_active

\* end_session(session_id) returns 0, raises nothing and changes neither the
\* sessions nor any file
EndsAsNoOp(session_id) == end_session(World, session_id) = [S |-> World, ret |-> 0]

\* C15 as stated: for every unsigned session id (0 included) that is unknown or
\* whose session is closed, end_session returns 0 without raising and leaves the
\* sessions collection unchanged.
C15_EndSessionIdempotentUnsigned ==
    \A session_id \in SessionIds : NotOpen(session_id) => EndsAsNoOp(session_id)

\* C15: for every positive session id that is unknown or whose session is closed,
\* end_session returns 0 without raising and leaves the sessions collection
\* unchanged, so that ending a session twice keeps the end_time and
\* duration_seconds of the first call.
C15_EndSessionIdempotent ==
    \A session_id \in SessionIds \ {0} : NotOpen(session_id) => EndsAsNoOp(session_id)

\* a session closed with a duration, looked at after more time has passed
C15_Witness ==
    \E i \in DOMAIN db.sessions :
        /\ ~db.sessions[i].is_active
        /\ db.sessions[i].duration_seconds > 0
        /\ db.sessions[i].end_time < clock
        /\ EndsAsNoOp(db.sessions[i].id)

\* timer_id is a running stopwatch of the viewed date in W
RunningStopwatch(W, timer_id) ==
    /\ _get_timer_by_id(W, timer_id) # 0
    /\ W.tm._timers[_get_timer_by_id(W, timer_id)].isRunning
    /\ W.tm._timers[_get_timer_by_id(W, timer_id)].type = "stopwatch"

\* in W the timer has no active session, and its Store state of the viewed date
\* is stopped with the elapsed seconds of memory
StoppedInStore(W, timer_id) ==
    /\ \A i \in DOMAIN W.db.sessions :
           W.db.sessions[i].timer_id = timer_id => ~W.db.sessions[i].is_active
    /\ StateKey(_get_current_date_string(W), timer_id) \in DOMAIN W.db.daily_states
    /\ ~W.db.daily_states[StateKey(_get_current_date_string(W), timer_id)].is_running
    /\ W.db.daily_states[StateKey(_get_current_date_string(W), timer_id)].elapsed_seconds
           = W.tm._timers[_get_timer_by_id(W, timer_id)].elapsedSeconds

\* C16: after stopTimer(id) on a running stopwatch of the viewed date, also one
\* whose running state was loaded from the Store by a new process, no session of
\* the timer is active and the Store state of (viewed date, id) is not running
\* with the elapsed seconds shown in memory.
C16_StopClosesSession ==
    [][\A timer_id \in TimerIds :
           (StopTimer(timer_id) /\ RunningStopwatch(World, timer_id))
               => StoppedInStore(stopTimer(World, timer_id), timer_id)]_vars

\* the seconds of the most recent setCountdownTime of a timer on a date, as the
\* Store records them (0 when there was none)
ConfiguredSeconds(collections, key) ==
    Get(collections.daily_states, key, DefaultState).initial_countdown_seconds

\* the timer of the viewed date with this id, and its Store state
TimerOf(W, timer_id) == W.tm._timers[_get_timer_by_id(W, timer_id)]

StateOf(W, timer_id) ==
    W.db.daily_states[StateKey(_get_current_date_string(W), timer_id)]

\* after a reset: stopped in memory and in the Store, a stopwatch at 0 and a
\* countdown at seconds
IsReset(W, timer_id, seconds) ==
    /\ ~TimerOf(W, timer_id).isRunning
    /\ timer_id \notin W.tm._running_timer_ids
    /\ ~StateOf(W, timer_id).is_running
    /\ TimerOf(W, timer_id).type = "stopwatch"
           => TimerOf(W, timer_id).elapsedSeconds = 0
              /\ StateOf(W, timer_id).elapsed_seconds = 0
    /\ TimerOf(W, timer_id).type = "countdown"
           => TimerOf(W, timer_id).countdownSeconds = seconds
              /\ StateOf(W, timer_id).countdown_seconds = seconds

\* C17: after resetTimer(id) the timer is not running in memory and in the Store,
\* a stopwatch has elapsed_seconds 0, and a countdown has the countdown_seconds of
\* its most recent setCountdownTime, whatever ticks and adjustTime calls came in
\* between: the configured seconds of a timer are changed by setCountdownTime of
\* that timer alone, which sets them to its argument, and a reset returns to them.
C17_ResetRestores ==
    [][/\ \A timer_id \in TimerIds :
              (ResetTimer(timer_id) /\ _get_timer_by_id(World, timer_id) # 0)
                  => IsReset(resetTimer(World, timer_id), timer_id,
                             ConfiguredSeconds(db, StateKey(_get_current_date_string(World),
                                                            timer_id)))
       /\ \A timer_id \in TimerIds, seconds \in CountdownChoices :
              (/\ SetCountdownTime(timer_id, seconds)
               /\ _get_timer_by_id(World, timer_id) # 0
               /\ TimerOf(World, timer_id).type = "countdown")
                  => ConfiguredSeconds(db', StateKey(_get_current_date_string(World),
                                                     timer_id)) = seconds
       /\ \A key \in DOMAIN db'.daily_states :
              ConfiguredSeconds(db', key) # ConfiguredSeconds(db, key)
                  => \E seconds \in CountdownChoices :
                         /\ SetCountdownTime(IdInt(key[2]), seconds)
                         /\ key[1] = _get_current_date_string(World)
                         /\ ConfiguredSeconds(db', key) = seconds
       /\ \A i \in DOMAIN tm._timers :
              LET key == StateKey(_get_current_date_string(World), tm._timers[i].id)
              IN tm._timers[i].initialCountdownSeconds = ConfiguredSeconds(db, key)]_vars

\* a stopwatch reset after it ran for a second: stopped at 0 in memory and in the
\* Store, the session of its start still tracked
C17_Witness ==
    /\ clock >= 2
    /\ \E i \in DOMAIN tm._timers :
           /\ tm._timers[i].type = "stopwatch"
           /\ tm._timers[i].id \in DOMAIN tm._active_sessions
           /\ db.sessions[tm._active_sessions[tm._timers[i].id]].start_time < clock
           /\ IsReset(World, tm._timers[i].id, 0)

\* C18: elapsed_seconds and countdown_seconds are never negative, in memory and
\* in the Store, after any sequence of start, stop, tick, reset, adjustTime with
\* any integer delta and setCountdownTime with any integer seconds.
C18_NeverNegative ==
    /\ \A i \in DOMAIN tm._timers :
           tm._timers[i].elapsedSeconds >= 0 /\ tm._timers[i].countdownSeconds >= 0
    /\ \A key \in DOMAIN db.daily_states :
           /\ db.daily_states[key].elapsed_seconds >= 0
           /\ db.daily_states[key].countdown_seconds >= 0

\* the seconds of a project -> seconds summary, added up
RECURSIVE TotalOf(_)
TotalOf(summary) ==
    IF DOMAIN summary = {} THEN 0
    ELSE LET p == CHOOSE p \in DOMAIN summary : TRUE
         IN summary[p] + TotalOf([q \in DOMAIN summary \ {p} |-> summary[q]])

\* the time worked today as the sessions record it: the durations of today's
\* closed sessions, and of every open session the time since its start
WorkedToday ==
    SumSeq([i \in DOMAIN db.sessions |->
               IF db.sessions[i].is_active
               THEN DurationSeconds(db.sessions[i].start_time, clock)
               ELSE IF db.sessions[i].date = today THEN db.sessions[i].duration_seconds
               ELSE 0])

\* C19: in the daily breakdown, today's total is the sum of the durations of
\* today's closed sessions plus, for every open session, only the time since
\* that session was started.
C19_BreakdownTotalToday ==
    Running => TotalOf(_calculate_daily_breakdown(World)[today]) = WorkedToday

\* the closed sessions of a date, and those of a project among them
ClosedOn(date_str) ==
    {i \in DOMAIN db.sessions :
        db.sessions[i].date = date_str /\ ~db.sessions[i].is_active}

RECURSIVE SumDurations(_)
SumDurations(indexes) ==
    IF indexes = {} THEN 0
    ELSE LET i == CHOOSE i \in indexes : TRUE
         IN db.sessions[i].duration_seconds + SumDurations(indexes \ {i})

\* C20: get_weekly_summary has an entry for exactly the dates among today and the
\* 6 days before it that have a closed session, and each entry is
\* get_daily_summary of its date: per project, the sum of duration_seconds of the
\* date's closed sessions.
C20_WeeklySummary ==
    /\ DOMAIN get_weekly_summary(World)
           = {d \in today - 6 .. today : ClosedOn(d) # {}}
    /\ \A d \in DOMAIN get_weekly_summary(World) :
           /\ get_weekly_summary(World)[d] = get_daily_summary(World, d)
           /\ DOMAIN get_weekly_summary(World)[d]
                  = {db.sessions[i].project_name : i \in ClosedOn(d)}
           /\ \A p \in DOMAIN get_weekly_summary(World)[d] :
                  get_weekly_summary(World)[d][p]
                      = SumDurations({i \in ClosedOn(d) : db.sessions[i].project_name = p})

\* on day 7, a closed session of day 0 (out of the week) and one of day 1 that
\* lasted a second: the summary has the entry of day 1 alone
C20_Witness ==
    /\ today = MaxDays
    /\ ClosedOn(0) # {}
    /\ \E i \in ClosedOn(1) : db.sessions[i].duration_seconds > 0
    /\ DOMAIN get_weekly_summary(World) = {1}

\* the collection files that are not JSON, and those that are JSON of a
\* structure the validators reject
CorruptFiles == {key \in KeySet : fs[key].kind = "corrupt"}
MalformedFiles == {key \in KeySet : fs[key].kind = "malformed"}

\* C21: constructing the Store over a directory with a collection file that is
\* not parseable JSON fails with DatabaseError, and every such file is left as it
\* was (it is not replaced by the default structure).
C21_CorruptIsFatal ==
    CorruptFiles # {}
        => /\ ~DatabaseInit(fs).ok
           /\ DatabaseInit(fs).error = "DatabaseError"
           /\ ~Construct(fs).ok
           /\ \A key \in CorruptFiles : DatabaseInit(fs).fs[key] = fs[key]

\* a failed start over a corrupt sessions file, after the deleted catalog file
\* was created again with the default structure
C21_Witness ==
    /\ ~alive
    /\ fs.sessions.kind = "corrupt"
    /\ fs.data.kind = "json"
    /\ JsonLoad("data", fs.data.text) = DefaultDoc("data")
    /\ fs.daily_timers.kind = "json"
    /\ DOMAIN JsonLoad("daily_timers", fs.daily_timers.text).daily_timers # {}
    /\ ~DatabaseInit(fs).ok

\* C22: loading a collection file that is JSON of a malformed structure makes the
\* Store operation (its construction, the one operation that loads) fail with
\* ValidationError, not with the DatabaseError of an I/O failure.
C22_MalformedIsValidationError ==
    (MalformedFiles # {} /\ CorruptFiles = {})
        => /\ ~DatabaseInit(fs).ok
           /\ DatabaseInit(fs).error = "ValidationError"

\* every collection has its empty default and the runtime holds nothing
AllCleared(W) ==
    /\ W.db.data = [timers |-> <<>>, next_id |-> 1]
    /\ W.db.sessions = <<>>
    /\ W.db.daily_states = EmptyDict
    /\ W.db.daily_timers.daily_timers = EmptyDict
    /\ W.tm._timers = <<>>
    /\ W.tm._running_timer_ids = {}
    /\ W.tm._active_sessions = EmptyDict

\* C23: after resetAllData, from any state (timers running on the viewed date or
\* on other dates, open sessions), the catalog is empty with next_id 1, the
\* sessions, daily states and membership are empty, and the runtime has no timers,
\* no running id and no tracked session.
C23_ResetAllClears ==
    [][ResetAllData => AllCleared([db |-> db', fs |-> fs', tm |-> tm'])]_vars

\* the state a resetAllData leaves: everything cleared, the four collections
\* marked for saving
C23_Witness ==
    /\ AllCleared(World)
    /\ \A key \in KeySet : db._pending_saves[key]
    /\ clock >= 2

\* the names of the catalog's timers and the project names of the sessions: the
\* results of the sanitizer that were stored
StoredNames ==
    {db.data.timers[i].name : i \in DOMAIN db.data.timers}
        \cup {db.sessions[i].project_name : i \in DOMAIN db.sessions}

\* x is trimmed and has no two whitespace characters in a row, and no whitespace
\* other than the space
Normalized(x) ==
    /\ x # <<>> /\ x[1] # " " /\ x[Len(x)] # " "
    /\ \A i \in 1 .. Len(x) : x[i] \in Whitespace => x[i] = " "
    /\ \A i \in 1 .. (Len(x) - 1) : ~(x[i] = " " /\ x[i + 1] = " ")

\* C24: the sanitizer is idempotent on accepted input: for every name x it
\* accepts, the sanitizer accepts its result and returns it unchanged; the result
\* is trimmed and has no run of whitespace.
C24_SanitizeIdempotent ==
    /\ \A x \in NameInputs :
           _sanitize_timer_name(x).ok
               => /\ _sanitize_timer_name(_sanitize_timer_name(x).name)
                         = _sanitize_timer_name(x)
                  /\ Normalized(_sanitize_timer_name(x).name)
    /\ \A x \in StoredNames :
           _sanitize_timer_name(x) = [ok |-> TRUE, name |-> x] /\ Normalized(x)

\* a stored name with a space inside, which the sanitizer returns as it is
C24_Witness ==
    \E x \in StoredNames :
        /\ \E i \in 1 .. Len(x) : x[i] = " "
        /\ _sanitize_timer_name(x) = [ok |-> TRUE, name |-> x]

\* the characters the allow-list is said to hold: letters, digits, the space and
\* -_().,!?:
ListedChars == Letters \cup Digits \cup {" ", "-", "_", "(", ")", ".", ",", "!", "?", ":"}

\* C25: the sanitizer fails for every input with a character outside letters,
\* digits, the space and -_().,!?: , a tab, carriage return or newline anywhere in
\* it (its ends included) among them.
C25_RejectsUnlistedChars ==
    \A x \in NameInputs :
        (\E i \in 1 .. Len(x) : x[i] \notin ListedChars)
            => /\ ~_sanitize_timer_name(x).ok
               /\ add_timer(World, x, "stopwatch").ret < 0

\* x contains one of the injection texts
HasSignature(x) ==
    \E sig \in Signatures : \E i \in 1 .. Len(x) :
        /\ i + Len(sig) - 1 <= Len(x)
        /\ SubSeq(x, i, i + Len(sig) - 1) = sig

\* C26: a timer or project name that contains an injection text is rejected with
\* the reason "potentially dangerous content".
C26_DangerousContentReason ==
    \A x \in NameInputs :
        HasSignature(x)
            => /\ add_timer(World, x, "stopwatch").ret < 0
               /\ _sanitize_timer_name(x)
                      = [ok |-> FALSE, error |-> "potentially dangerous content"]
               /\ start_session(World, 1, x).ret < 0
               /\ _sanitize_project_name(x)
                      = [ok |-> FALSE, error |-> "potentially dangerous content"]

\* C27: every file the Store has written (the four collection files, written at
\* once, with the defaults or by a batch flush, and every archive file) has
\* owner-only read/write permissions.
C27_OwnerOnlyFiles ==
    /\ \A key \in KeySet : fs[key].kind = "json" => fs[key].mode = SECURE_MODE
    /\ \A name \in DOMAIN fs.archive : fs.archive[name].mode = SECURE_MODE

\* C28: the runtime's set of running ids is the set of ids of the viewed date's
\* timers in memory whose isRunning is true.
C28_RunningIdsMatch ==
    Running => tm._running_timer_ids
                   = {tm._timers[i].id : i \in {j \in DOMAIN tm._timers : tm._timers[j].isRunning}}

\* the breakdown computed from the state after the step
FreshBreakdown == _calculate_daily_breakdown([db |-> db', fs |-> fs', tm |-> tm'])

\* on tick n the counter is n modulo COUNTER_RESET, and the last observed date
\* becomes today's on the multiples of DAY_CHECK_TICKS and on no other tick
CounterAndDayCheck(n) ==
    /\ tm'._timer_update_counter \in 0 .. (COUNTER_RESET - 1)
    /\ tm'._timer_update_counter = n % COUNTER_RESET
    /\ tm'._current_date = IF n % DAY_CHECK_TICKS = 0 THEN today ELSE tm._current_date

\* on tick n the cached breakdown is computed again when n is a multiple of
\* BREAKDOWN_TICKS and a session is open in the store (or the day check has
\* observed a new date), and is left alone on every other tick
RefreshOnOpenSession(n) ==
    tm'._daily_breakdown
        = IF \/ n % BREAKDOWN_TICKS = 0
                /\ \E i \in DOMAIN db'.sessions : db'.sessions[i].is_active
             \/ n % DAY_CHECK_TICKS = 0 /\ today # tm._current_date
          THEN FreshBreakdown
          ELSE tm._daily_breakdown

\* the counter and the day check alone keep their schedule across the wraparound
TickCounterSchedule ==
    [][TickWithin(2 * MaxScheduleTicks) => CounterAndDayCheck(clock' \div 2)]_vars

\* C29: the tick counter stays within 0..299 between ticks, and its wraparound
\* does not disturb the schedule: with the ticks numbered from the start of the
\* scheduler, the day-rollover check runs on exactly the ticks whose number is a
\* multiple of 60, and the breakdown refresh runs on exactly the ticks whose
\* number is a multiple of 5 and on which at least one session is open.
C29_TickSchedule ==
    [][TickWithin(2 * MaxScheduleTicks)
           => /\ CounterAndDayCheck(clock' \div 2)
              /\ RefreshOnOpenSession(clock' \div 2)]_vars

\* what a step from W to R may change: the last observed date, which becomes
\* today's, and the cached breakdown, which is computed again
RolloverFrame(W, R) ==
    /\ R.db = W.db
    /\ R.fs = W.fs
    /\ R.tm._timers = W.tm._timers
    /\ R.tm._current_date_str = W.tm._current_date_str
    /\ _get_current_date_string(R) = _get_current_date_string(W)
    /\ R.tm._running_timer_ids = W.tm._running_timer_ids
    /\ R.tm._active_sessions = W.tm._active_sessions
    /\ R.tm._timer_update_counter = W.tm._timer_update_counter
    /\ R.tm._current_date = today
    /\ R.tm._daily_breakdown = _calculate_daily_breakdown(R)

\* the wall-clock date differs from the last observed date
RolloverDue == Running /\ today # tm._current_date

FlushStep == \E fail \in IOFailures : BatchSave(fail) \/ FlushAll(fail)
ConstructionStep == StartOk \/ StartFails \/ Reopen

\* a tick in which a running timer was advanced
AdvancingTick == Tick /\ db'.daily_states # db.daily_states

StaysRunning(k) ==
    k \in DOMAIN db'.daily_states /\ db'.daily_states[k].is_running

\* C32: in every step taken while a stopwatch stays running (its is_running is
\* true before and after the step) its elapsed_seconds does not decrease, and in
\* every step taken while a countdown stays running its countdown_seconds does
\* not increase and is never below 0.
C32_MonotoneWhileRunning ==
    [][/\ \A k \in RunningStates("stopwatch") :
              StaysRunning(k) => db'.daily_states[k].elapsed_seconds
                                     >= db.daily_states[k].elapsed_seconds
       /\ \A k \in RunningStates("countdown") :
              StaysRunning(k) => /\ db'.daily_states[k].countdown_seconds
                                        <= db.daily_states[k].countdown_seconds
                                 /\ db'.daily_states[k].countdown_seconds >= 0]_vars

\* the Store's state of timer 1 on a date: a countdown that is running, and one
\* that has run out and has stopped
CountdownRunningOn(date_str) ==
    /\ StateKey(date_str, 1) \in DOMAIN db.daily_states
    /\ db.daily_states[StateKey(date_str, 1)].is_running
    /\ get_timer(World, 1) # <<>> /\ get_timer(World, 1)[1].type = "countdown"

CountdownDoneOn(date_str) ==
    /\ StateKey(date_str, 1) \in DOMAIN db.daily_states
    /\ db.daily_states[StateKey(date_str, 1)].countdown_seconds = 0
    /\ ~db.daily_states[StateKey(date_str, 1)].is_running

\* C33: provided scheduler ticks keep firing, every countdown that has been
\* started eventually reaches countdown_seconds = 0 with is_running = FALSE in
\* the Store, whichever date the user views in the meantime.
C33_CountdownAutoStops ==
    \A date_str \in DateChoices :
        CountdownRunningOn(date_str) ~> CountdownDoneOn(date_str)

\* the catalog has this timer and it is a stopwatch
IsStopwatch(timer_id) ==
    get_timer(World, timer_id) # <<>> /\ get_timer(World, timer_id)[1].type = "stopwatch"

\* a daily state of the timer, of whatever date, has is_running = TRUE
RunsOnSomeDate(timer_id) ==
    \E k \in DOMAIN db.daily_states :
        IdInt(k[2]) = timer_id /\ db.daily_states[k].is_running

\* C34: between operations a stopwatch has an active session in the Store if and
\* only if its daily state has is_running = TRUE: no sequence of operations
\* leaves a stopwatch that is not running with a session still open.
C34_SessionIffRunning ==
    \A timer_id \in TimerIds :
        IsStopwatch(timer_id)
            => (ActiveSessionsOf(timer_id) # {} <=> RunsOnSomeDate(timer_id))

\* the timer in memory shows what the Store holds for it on the viewed date
MirrorsStore(W, timer) ==
    LET st == Get(W.db.daily_states, StateKey(_get_current_date_string(W), timer.id),
                  DefaultState)
    IN /\ timer.elapsedSeconds = st.elapsed_seconds
       /\ timer.countdownSeconds = st.countdown_seconds
       /\ timer.isRunning = st.is_running

\* a step of the running application: an operation or a tick (midnight passing is
\* a step of the calendar, not of the application)
ApplicationStep == Running /\ Running' /\ today' = today

\* C35: the timers in memory mirror the Store for the viewed date: after every
\* operation of the runtime and after every tick, each timer's elapsedSeconds,
\* countdownSeconds and isRunning equal the Store's daily state of
\* (viewed date, timer id).
C35_MemoryMirrorsStore ==
    [][ApplicationStep
           => \A i \in DOMAIN tm'._timers :
                  MirrorsStore([db |-> db', fs |-> fs', tm |-> tm'], tm'._timers[i])]_vars

\* the file of a collection holds the collection as it is in memory
OnDisk(key) == fs[key].kind = "json" /\ JsonLoad(key, fs[key].text) = db[key]

\* C36: between the operations of the Store each collection's file holds the
\* collection as it is in memory unless its dirty flag is set (with immediate
\* saves: always); in particular after a rejected add_timer_to_date the catalog
\* file does not hold the timer that was rolled back, or the incremented
\* next_id, without the catalog being marked dirty.
C36_DiskMatchesMemory ==
    alive => \A key \in KeySet : db._pending_saves[key] \/ OnDisk(key)

\* the timer is on the list of the date
OnListOf(date_str, timer_id) ==
    \E t \in Range(get_timers_for_date(World, date_str)) : t.id = timer_id

\* C37: every daily state record with is_running = TRUE belongs to a timer that is
\* on the list of that date, and every open session to a timer that is on the
\* list of some date: deleting a running timer from a date leaves no running
\* state and no open session of it.
C37_RunningStatesAreListed ==
    /\ \A k \in DOMAIN db.daily_states :
           db.daily_states[k].is_running => OnListOf(k[1], IdInt(k[2]))
    /\ \A i \in DOMAIN db.sessions :
           db.sessions[i].is_active
               => \E date_str \in DateChoices : OnListOf(date_str, db.sessions[i].timer_id)

\* a flush in which the write of the dirty collection fail meets an I/O error
FailingFlush(fail) ==
    db._pending_saves[fail] /\ (BatchSave(fail) \/ FlushAll(fail))

\* C38: during a flush an I/O failure while writing one collection keeps that
\* collection's dirty flag set, so that the next flush tries again, and does not
\* prevent the other dirty collections from being written in the same flush.
C38_FailureIsLocal ==
    [][\A fail \in KeySet :
           FailingFlush(fail)
               => /\ db'._pending_saves[fail]
                  /\ \A key \in KeySet \ {fail} :
                         db._pending_saves[key]
                             => /\ ~db'._pending_saves[key]
                                /\ fs'[key].kind = "json"
                                /\ JsonLoad(key, fs'[key].text) = db'[key]]_vars

\* the closed sessions of a timer
ClosedOf(timer_id) ==
    {i \in DOMAIN db.sessions :
        db.sessions[i].timer_id = timer_id /\ ~db.sessions[i].is_active}

\* the Store's state records of a timer on the dates that list it
ListedStates(timer_id) ==
    {k \in DOMAIN db.daily_states :
        IdInt(k[2]) = timer_id /\ OnListOf(k[1], timer_id)}

\* C39: for a stopwatch that is never adjusted or reset, with one tick per second
\* of wall-clock time, whenever it is stopped its elapsed_seconds equals the sum
\* of duration_seconds of its closed sessions, within 1 s per session, whichever
\* dates were viewed while it ran.
C39_ElapsedIsSessionTime ==
    \A k \in ListedStates(1) :
        (~db.daily_states[k].is_running /\ ActiveSessionsOf(1) = {})
            => LET elapsed == db.daily_states[k].elapsed_seconds
                   worked == SumDurations(ClosedOf(1))
               IN /\ elapsed - worked <= Cardinality(ClosedOf(1))
                  /\ worked - elapsed <= Cardinality(ClosedOf(1))

\* every thread has returned from add_timer
AllReturned == \A t \in Threads : threads[t].pc = "done"

\* C40: when several threads call add_timer on the same Store concurrently, under
\* every interleaving of their steps (read next_id, append the entry, increment
\* next_id) all created catalog entries have distinct ids, and next_id ends up
\* greater than every assigned id.
C40_ConcurrentIdsDistinct ==
    AllReturned
        => /\ \A i, j \in DOMAIN db.data.timers :
                  db.data.timers[i].id = db.data.timers[j].id => i = j
           /\ \A i \in DOMAIN db.data.timers : db.data.timers[i].id < db.data.next_id

====
